---- MODULE Spec2Model ----
(***************************************************************************)
(* The interpretation core of zzj3720/date-picker: the response            *)
(* normalisation of BaseLLMProvider, the concrete providers, the fallback  *)
(* interpreter and the DateInterpreter dispatcher.                         *)
(*                                                                         *)
(* JavaScript values are tagged records so that values of different        *)
(* JavaScript types can be compared.  Numbers are kept in tenths           *)
(* (0.9 is 9, 1.5 is 15, 3 is 30).                                         *)
(***************************************************************************)
EXTENDS Integers, Sequences, FiniteSets, TLC

(***************************************************************************)
(* Bounds of the model                                                     *)
(***************************************************************************)
\* numbers a backend can put in a response run over -1 .. MaxNum (tenths)
MaxNum == 15
\* how many interpretDate calls one dispatcher instance serves in a run
MaxCalls == 1
\* the reference instants a fallback payload can carry run over 0 .. MaxRef
MaxRef == 3
\* fetchModels runs that can be pending at once in the configuration component
MaxRuns == 2

(***************************************************************************)
(* JavaScript values                                                       *)
(***************************************************************************)
\* a primitive: t is the tag, n the number (tenths) or the boolean, s the string
Prim(t, n, s) == [t |-> t, n |-> n, s |-> s]
Undefined == Prim("undefined", 0, "")
Null == Prim("null", 0, "")
Num(n) == Prim("number", n, "")
Str(s) == Prim("string", 0, s)
Bool(b) == Prim("boolean", IF b THEN 1 ELSE 0, "")

\* the field map of an object without own properties
NoFields == [k \in {} |-> Undefined]

\* a primitive as a full value
V(p) == [t |-> p.t, n |-> p.n, s |-> p.s, fields |-> NoFields, toks |-> <<>>]
\* a plain object with the given own properties (each a primitive)
Obj(f) == [t |-> "object", n |-> 0, s |-> "", fields |-> f, toks |-> <<>>]
\* a string given by the JSON tokens its characters spell
Text(toks) == [t |-> "text", n |-> 0, s |-> "", fields |-> NoFields, toks |-> toks]

\* typeof v
TypeOf(v) ==
  CASE v.t = "null" -> "object"
    [] v.t = "text" -> "string"
    [] OTHER -> v.t

\* ToBoolean(v): the truthiness `!x` and `x && ...` test
Truthy(v) ==
  CASE v.t = "undefined" -> FALSE
    [] v.t = "null" -> FALSE
    [] v.t = "boolean" -> v.n = 1
    [] v.t = "number" -> v.n # 0
    [] v.t = "string" -> v.s # ""
    [] v.t = "text" -> v.toks # <<>>
    [] OTHER -> TRUE

\* obj?.key : undefined on null / undefined, on a primitive and on a missing key
Get(v, key) ==
  IF v.t = "object" /\ key \in DOMAIN v.fields THEN v.fields[key] ELSE Undefined

(***************************************************************************)
(* JSON texts: a text is a sequence of tokens                              *)
(***************************************************************************)
LBrace == Prim("lbrace", 0, "")
RBrace == Prim("rbrace", 0, "")
Colon == Prim("colon", 0, "")
Comma == Prim("comma", 0, "")
\* any run of characters that is no JSON token ("Sure! Here is the date:")
Junk == Prim("junk", 0, "")

IsLit(tok) == tok.t \in {"null", "boolean", "number", "string"}

\* f with key bound to v (a later duplicate key overrides an earlier one)
Put(f, key, v) == [k \in (DOMAIN f) \cup {key} |-> IF k = key THEN v ELSE f[k]]

\* the members between the braces: string : literal (, string : literal)*
RECURSIVE Members(_, _)
Members(toks, acc) ==
  IF Len(toks) >= 3 /\ toks[1].t = "string" /\ toks[2].t = "colon" /\ IsLit(toks[3])
  THEN LET acc2 == Put(acc, toks[1].s, toks[3])
       IN  IF Len(toks) = 3 THEN [ok |-> TRUE, val |-> Obj(acc2)]
           ELSE IF toks[4].t = "comma"
                THEN Members(SubSeq(toks, 5, Len(toks)), acc2)
                ELSE [ok |-> FALSE, val |-> V(Undefined)]
  ELSE [ok |-> FALSE, val |-> V(Undefined)]

\* JSON.parse(text): ok = FALSE stands for the SyntaxError it throws
JSONParse(toks) ==
  IF Len(toks) = 1 /\ IsLit(toks[1]) THEN [ok |-> TRUE, val |-> V(toks[1])]
  ELSE IF Len(toks) >= 2 /\ toks[1].t = "lbrace" /\ toks[Len(toks)].t = "rbrace"
  THEN IF Len(toks) = 2 THEN [ok |-> TRUE, val |-> Obj(NoFields)]
       ELSE Members(SubSeq(toks, 2, Len(toks) - 1), NoFields)
  ELSE [ok |-> FALSE, val |-> V(Undefined)]

\* the text a backend writes for an object: its members in the order of keys
RECURSIVE MemberToks(_, _)
MemberToks(f, keys) ==
  IF keys = <<>> THEN <<>>
  ELSE LET k == Head(keys)
           rest == MemberToks(f, Tail(keys))
       IN  IF k \in DOMAIN f
           THEN <<Str(k), Colon, f[k]>> \o (IF rest = <<>> THEN <<>> ELSE <<Comma>> \o rest)
           ELSE rest

ResponseKeys == <<"value", "timezone", "confidence", "reasoning">>

JSONStringify(f) == <<LBrace>> \o MemberToks(f, ResponseKeys) \o <<RBrace>>

(***************************************************************************)
(* Errors                                                                  *)
(***************************************************************************)
\* an Error object: its class, its message, the interpolated detail and status
Err(name, msg, detail, status) ==
  [name |-> name, msg |-> msg, detail |-> detail, status |-> status]
NoError == Err("", "", "", 0)

MissingISO == Err("Error", "LLM response missing ISO value.", "", 0)

(***************************************************************************)
(* Provider identities and configuration schemas (zod)                     *)
(***************************************************************************)
ProviderIds == {"ollama", "lmstudio", "chrome-ai", "cloud"}

\* z.url(): the strings `new URL(s)` accepts, among those the model uses
IsUrl(s) == s \in {"http://localhost:1234/v1", "http://localhost:11434"}
\* z.email(): the strings the e-mail pattern accepts, among those the model uses
IsEmail(s) == s \in {"me@example.com"}

\* the keys each provider's z.object schema declares
SchemaKeys(id) ==
  CASE id \in {"lmstudio", "ollama"} -> {"baseUrl", "model"}
    [] id = "chrome-ai" -> {"temperature", "topK"}
    [] OTHER -> {"email"}

\* the outcome of schema.safeParse: data on success, the issue on failure
ParseOk(data) == [success |-> TRUE, data |-> data, issue |-> ""]
ParseFail(issue) == [success |-> FALSE, data |-> V(Undefined), issue |-> issue]

\* z.object() output: the known keys only, unknown keys are stripped
Strip(cfg, keys) == Obj([k \in (DOMAIN cfg.fields) \cap keys |-> cfg.fields[k]])

\* z.object({ baseUrl: z.url(..).min(1, ..), model: z.string().optional() })
HttpConfigSchema(id, cfg) ==
  IF cfg.t # "object" THEN ParseFail("Invalid input: expected object")
  ELSE IF "baseUrl" \notin DOMAIN cfg.fields \/ cfg.fields["baseUrl"].t # "string"
  THEN ParseFail("baseUrl: Invalid input: expected string")
  ELSE IF ~IsUrl(cfg.fields["baseUrl"].s) THEN ParseFail("baseUrl: Must be a valid URL")
  ELSE IF "model" \in DOMAIN cfg.fields /\ cfg.fields["model"].t # "string"
  THEN ParseFail("model: Invalid input: expected string")
  ELSE ParseOk(Strip(cfg, SchemaKeys(id)))

lmStudioConfigSchema(cfg) == HttpConfigSchema("lmstudio", cfg)

ollamaConfigSchema(cfg) == HttpConfigSchema("ollama", cfg)

\* an optional z.number().min(lo).max(hi) field (tenths)
NumberFieldOk(cfg, key, lo, hi) ==
  key \in DOMAIN cfg.fields =>
    /\ cfg.fields[key].t = "number"
    /\ cfg.fields[key].n >= lo
    /\ cfg.fields[key].n <= hi

\* z.object({ temperature: z.number().min(0).max(1).optional(),
\*            topK: z.number().min(1).max(8).optional() })
chromeAIConfigSchema(cfg) ==
  IF cfg.t # "object" THEN ParseFail("Invalid input: expected object")
  ELSE IF ~NumberFieldOk(cfg, "temperature", 0, 10)
  THEN ParseFail("temperature: Invalid number")
  ELSE IF ~NumberFieldOk(cfg, "topK", 10, 80) THEN ParseFail("topK: Invalid number")
  ELSE ParseOk(Strip(cfg, SchemaKeys("chrome-ai")))

\* z.object({ email: z.email('Must be a valid email').optional() })
cloudConfigSchema(cfg) ==
  IF cfg.t # "object" THEN ParseFail("Invalid input: expected object")
  ELSE IF "email" \in DOMAIN cfg.fields
          /\ ~(cfg.fields["email"].t = "string" /\ IsEmail(cfg.fields["email"].s))
  THEN ParseFail("email: Must be a valid email")
  ELSE ParseOk(Strip(cfg, SchemaKeys("cloud")))

\* provider.configSchema.safeParse(cfg) of the provider registered under id
configSchema(id, cfg) ==
  CASE id = "lmstudio" -> lmStudioConfigSchema(cfg)
    [] id = "ollama" -> ollamaConfigSchema(cfg)
    [] id = "chrome-ai" -> chromeAIConfigSchema(cfg)
    [] OTHER -> cloudConfigSchema(cfg)

(***************************************************************************)
(* DateInterpretation and response normalisation (BaseLLMProvider)         *)
(***************************************************************************)
\* a raw payload kept for diagnostics: the envelope shape, its content, and
\* for a chrono match the instant it stands for
Raw(shape, content, at) == [shape |-> shape, content |-> content, at |-> at]
NoRaw == Raw("none", V(Undefined), 0)

DateInterpretation(id, value, tz, conf, why, raw) ==
  [providerId |-> id, value |-> value, timezone |-> tz, confidence |-> conf,
   reasoning |-> why, rawResponse |-> raw]
NoResult == DateInterpretation("", Undefined, Undefined, Undefined, Undefined, NoRaw)

\* one console.error line: its label and its argument
Line(label, id, val, raw) == [label |-> label, id |-> id, val |-> val, raw |-> raw]

\* safeValidate(candidate): the parsed record, or null
safeValidate(candidate) ==
  IF TypeOf(candidate) = "string"
  THEN LET r == JSONParse(candidate.toks)
       IN  IF r.ok THEN r.val ELSE V(Null)
  ELSE IF Truthy(candidate) /\ TypeOf(candidate) = "object" THEN candidate
  ELSE V(Null)

\* the diagnostics without the raw payload
ParseDiagnosticsNoRaw(id, candidate, rawResponse) ==
  << Line("LLM response missing ISO value", "", V(Undefined), NoRaw),
     Line("Provider:", id, V(Undefined), NoRaw),
     Line("Candidate:", "", candidate, NoRaw) >>

\* the diagnostics parseResponse writes before it throws
ParseDiagnostics(id, candidate, rawResponse) ==
  << Line("LLM response missing ISO value", "", V(Undefined), NoRaw),
     Line("Provider:", id, V(Undefined), NoRaw),
     Line("Candidate:", "", candidate, NoRaw),
     Line("Raw response:", "", V(Undefined), rawResponse) >>

\* a field of the parsed record when it has the expected type, else undefined
FieldOfType(parsed, key, type) ==
  IF TypeOf(Get(parsed, key)) = type THEN Get(parsed, key) ELSE Undefined

\* the test of line 84 with the type check alone
MissingValueTypeOnly(parsed) == TypeOf(Get(parsed, "value")) # "string"

\* the test of line 84: the parsed record has no usable value
MissingValue(parsed) ==
  ~Truthy(Get(parsed, "value")) \/ TypeOf(Get(parsed, "value")) # "string"

\* the object of lines 92-99 with one provider's id written in
InterpretationFixedId(id, parsed, rawResponse) ==
  DateInterpretation("lmstudio", Get(parsed, "value"),
                     FieldOfType(parsed, "timezone", "string"),
                     FieldOfType(parsed, "confidence", "number"),
                     FieldOfType(parsed, "reasoning", "string"),
                     rawResponse)

\* the object of lines 92-99 with the confidence clamped to [0, 1]
InterpretationClamped(id, parsed, rawResponse) ==
  LET c == FieldOfType(parsed, "confidence", "number")
  IN  DateInterpretation(id, Get(parsed, "value"),
                         FieldOfType(parsed, "timezone", "string"),
                         IF c.t = "number" /\ c.n > 10 THEN Num(10)
                         ELSE IF c.t = "number" /\ c.n < 0 THEN Num(0) ELSE c,
                         FieldOfType(parsed, "reasoning", "string"),
                         rawResponse)

\* the object of lines 92-99, built from the parsed record
Interpretation(id, parsed, rawResponse) ==
  DateInterpretation(id, Get(parsed, "value"),
                     FieldOfType(parsed, "timezone", "string"),
                     FieldOfType(parsed, "confidence", "number"),
                     FieldOfType(parsed, "reasoning", "string"),
                     rawResponse)

\* parseResponse(candidate, rawResponse) of the provider whose id is id:
\* ok with the DateInterpretation, or the error thrown, and the console lines
parseResponse(id, candidate, rawResponse) ==
  LET parsed == safeValidate(candidate)
  IN  IF MissingValue(parsed)
      THEN [ok |-> FALSE, result |-> NoResult, error |-> MissingISO,
            console |-> ParseDiagnostics(id, candidate, rawResponse)]
      ELSE [ok |-> TRUE, result |-> Interpretation(id, parsed, rawResponse),
            error |-> NoError, console |-> <<>>]

(***************************************************************************)
(* Dates                                                                   *)
(***************************************************************************)
\* the ISO 8601 text of the instant n (hours since the epoch of the model)
IsoStr(n) == Prim("string", n, "ISO")
\* !isNaN(new Date(p.s).getTime()): the string is the text of an instant
DateParses(p) ==
  p.t = "string" /\ p.s \in {"ISO", "2025-12-25T00:00:00+08:00"}

\* a Date object
DateObj(n) == Prim("date", n, "")
\* new Date(): the current time of the run
CurrentTime == 100

(***************************************************************************)
(* The fallback interpreter (chrono-node)                                  *)
(***************************************************************************)
Prompts == {"tomorrow at 3pm", "friday or monday", "qwerty"}

\* chronoParse(text, ref, { forwardDate }): the ranked matches, each the raw
\* match object, whose date() is the instant `at`
chronoParse(text, ref, forwardDate) ==
  CASE text = "tomorrow at 3pm" -> << Raw("chrono", V(Str("tomorrow at 3pm")), ref.n + 39) >>
    [] text = "friday or monday" ->
         << Raw("chrono", V(Str("friday")), IF forwardDate THEN ref.n + 48 ELSE ref.n - 120),
            Raw("chrono", V(Str("monday")), IF forwardDate THEN ref.n + 120 ELSE ref.n - 48) >>
    [] OTHER -> << >>

\* Intl.DateTimeFormat().resolvedOptions().timeZone
LocalTimeZone == Str("UTC")

\* x ?? y
Coalesce(x, y) == IF x.t \in {"undefined", "null"} THEN y ELSE x

FallbackConfidence == Num(2)

\* a parser call that leaves the forwardDate option off
ChronoArgsNoForward(payload) ==
  [text |-> payload.prompt, ref |-> Coalesce(payload.now, DateObj(CurrentTime)),
   forwardDate |-> FALSE]

\* the arguments of the chronoParse call: the prompt, now ?? new Date(), and
\* { forwardDate: true }
ChronoArgs(payload) ==
  [text |-> payload.prompt, ref |-> Coalesce(payload.now, DateObj(CurrentTime)),
   forwardDate |-> TRUE]

\* a fallback that answers with the reference instant when nothing matched
fallbackInterpreterGuess(payload) ==
  LET args == ChronoArgs(payload)
      parsed == chronoParse(args.text, args.ref, args.forwardDate)
      best == IF Len(parsed) = 0 THEN Raw("chrono", V(Str("")), args.ref.n) ELSE parsed[1]
  IN  [found |-> TRUE,
       result |-> DateInterpretation("fallback", IsoStr(best.at),
                    Coalesce(payload.timezone, LocalTimeZone),
                    FallbackConfidence,
                    Str("Fallback parser with chrono-node"),
                    best)]

\* fallbackInterpreter(payload): found = FALSE stands for the null it resolves to
fallbackInterpreter(payload) ==
  LET args == ChronoArgs(payload)
      parsed == chronoParse(args.text, args.ref, args.forwardDate)
  IN  IF Len(parsed) = 0 THEN [found |-> FALSE, result |-> NoResult]
      ELSE LET best == parsed[1]
           IN  [found |-> TRUE,
                result |-> DateInterpretation("fallback", IsoStr(best.at),
                             Coalesce(payload.timezone, LocalTimeZone),
                             FallbackConfidence,
                             Str("Fallback parser with chrono-node"),
                             best)]

(***************************************************************************)
(* Requests                                                                *)
(***************************************************************************)
Url == "http://localhost:1234/v1"

\* the provider configurations a caller can store or pass
Configs ==
  { V(Undefined),
    Obj(NoFields),
    Obj([k \in {"baseUrl", "model"} |-> IF k = "baseUrl" THEN Str("") ELSE Str("llama3.2:3b")]),
    Obj([k \in {"baseUrl"} |-> Str(Url)]),
    Obj([k \in {"baseUrl", "model"} |-> IF k = "baseUrl" THEN Str(Url) ELSE Str("")]),
    Obj([k \in {"baseUrl", "model"} |-> IF k = "baseUrl" THEN Str(Url) ELSE Num(30)]),
    Obj([k \in {"baseUrl", "topK", "apiKey"} |->
           IF k = "baseUrl" THEN Str(Url) ELSE IF k = "topK" THEN Num(30) ELSE Str("secret")]),
    Obj([k \in {"temperature", "topK"} |-> IF k = "temperature" THEN Num(8) ELSE Num(30)]),
    Obj([k \in {"temperature"} |-> Num(20)]) }

\* the optional locale, timezone and reference time of a call
Contexts ==
  { [locale |-> Undefined, timezone |-> Undefined, now |-> Undefined],
    [locale |-> Str("en-US"), timezone |-> Str("Asia/Shanghai"), now |-> DateObj(0)],
    [locale |-> Undefined, timezone |-> Str("Europe/Paris"), now |-> Undefined] }

\* the options of one DateInterpreter.interpretDate call
Options ==
  { [providerId |-> id, config |-> cfg, prompt |-> text, locale |-> c.locale,
     timezone |-> c.timezone, now |-> c.now, signal |-> sig] :
      id \in ProviderIds, cfg \in Configs, text \in Prompts, c \in Contexts,
      sig \in BOOLEAN }

NoOptions ==
  [providerId |-> "", config |-> V(Undefined), prompt |-> "", locale |-> Undefined,
   timezone |-> Undefined, now |-> Undefined, signal |-> FALSE]

\* an InterpretDateRequest / a fallback payload: absent fields are left out
NoRequest == [kind |-> "none"]

(***************************************************************************)
(* State                                                                   *)
(***************************************************************************)
VARIABLES
  registered,   \* DateInterpreter.config.providers: the ids that have an entry
  hasFallback,  \* DateInterpreter.config.fallback is set
  calls,        \* interpretDate calls this dispatcher has settled
  pc,           \* position of the current DateInterpreter.interpretDate call
  options,      \* its argument
  aborted,      \* options.signal has been aborted
  abortedAt,    \* where the call stood when the signal was aborted
  validation,   \* the result of provider.configSchema.safeParse(providerConfig)
  events,       \* what the call has invoked so far, in order
  fbPayload,    \* the payload runFallback received
  outcome,      \* how the dispatcher's promise settled
  ppc,          \* position of the provider's interpretDate
  request,      \* the request the provider's interpretDate received
  transport,    \* the HTTP exchange: the request sent and the response so far
  sessions,     \* LanguageModel sessions: created and destroyed so far
  lm,           \* what the provider saw of the LanguageModel global
  pout,         \* how the provider's promise settled
  console,      \* console.error lines written
  pin,          \* normalisation alone: the arguments of parseResponse
  presult,      \* normalisation alone: what parseResponse did
  fin,          \* the fallback alone: the payload of fallbackInterpreter
  fres,         \* the fallback alone: what fallbackInterpreter did
  stub,         \* repeated calls: the answers of the stubbed backends
  last,         \* repeated calls: the previous call and how it settled
  picker,       \* LlmDatePicker: its state, and what it reported through onChange
  component     \* OllamaConfigComponent: its state and the position of fetchModels

dvars == <<registered, hasFallback, calls, pc, options, aborted, abortedAt, validation, events,
           fbPayload, outcome>>
pvars == <<ppc, request, transport, sessions, lm, pout, console>>
nvars == <<pin, presult, fin, fres, stub, last, picker, component>>
vars == <<registered, hasFallback, calls, pc, options, aborted, abortedAt, validation, events,
          fbPayload, outcome, ppc, request, transport, sessions, lm, pout, console,
          pin, presult, fin, fres, stub, last, picker, component>>

\* a promise: pending, fulfilled with a DateInterpretation, or rejected
Pending == [kind |-> "pending", result |-> NoResult, error |-> NoError]
Fulfilled(r) == [kind |-> "result", result |-> r, error |-> NoError]
Rejected(e) == [kind |-> "error", result |-> NoResult, error |-> e]

NoValidation == [success |-> FALSE, data |-> V(Undefined), issue |-> "not validated"]
NoTransport ==
  [base |-> "", path |-> "", model |-> "", stream |-> "unset", signal |-> FALSE,
   system |-> [timezone |-> Undefined, now |-> Undefined], user |-> "",
   status |-> 0, statusText |-> "", data |-> NoRaw]
NoSessions == [created |-> 0, destroyed |-> 0]
NoLm == [defined |-> "unknown", available |-> ""]
NoParse == [ok |-> FALSE, result |-> NoResult, error |-> NoError, console |-> <<>>]
NoInput == [id |-> "", candidate |-> V(Undefined), raw |-> NoRaw]
NoFallbackRun ==
  [called |-> FALSE, args |-> [text |-> "", ref |-> Undefined, forwardDate |-> FALSE],
   kind |-> "pending", result |-> NoResult]
NoStub == [kind |-> "none"]
NoLast == [settled |-> FALSE, options |-> NoOptions, outcome |-> Pending]
NoPicker == [kind |-> "none"]
NoComponent == [kind |-> "none"]

\* the state between two calls
CallReset ==
  /\ pc = "idle"
  /\ options = NoOptions
  /\ aborted = FALSE
  /\ abortedAt = ""
  /\ validation = NoValidation
  /\ events = <<>>
  /\ fbPayload = NoRequest
  /\ outcome = Pending
  /\ ppc = "none"
  /\ request = NoRequest
  /\ transport = NoTransport
  /\ sessions = NoSessions
  /\ lm = NoLm
  /\ pout = Pending
  /\ console = <<>>

\* the provider registries a dispatcher is constructed with
Registries == { ProviderIds, {"lmstudio", "ollama"} }

Init ==
  /\ registered \in Registries
  /\ hasFallback \in BOOLEAN
  /\ calls = 0
  /\ CallReset
  /\ pin = NoInput
  /\ presult = NoParse
  /\ fin = NoRequest
  /\ fres = NoFallbackRun
  /\ stub = NoStub
  /\ last = NoLast
  /\ picker = NoPicker
  /\ component = NoComponent

(***************************************************************************)
(* DateInterpreter.interpretDate                                           *)
(***************************************************************************)
\* the lookup without the check of line 24
ResolveUnchecked(providers, providerId) == TRUE

\* this.config.providers[providerId] is a provider
Resolve(providers, providerId) == providerId \in providers

UnknownProvider(providerId) == Err("Error", "Provider is not configured.", providerId, 0)
\* the error of line 40 without the validation message
InvalidConfigurationNoDetail(v) == Err("Error", "Invalid configuration", "", 0)

InvalidConfiguration(v) == Err("Error", "Invalid configuration", v.issue, 0)

\* the routing with the validation result ignored
RouteToProvider(v) == "provider"

\* the routing with the test of line 31 inverted
RouteInverted(v) == IF v.success THEN "fallback" ELSE "provider"

\* where the call goes once the config has been validated
Route(v) == IF v.success THEN "provider" ELSE "fallback"

\* the payload with the rest of the options spread into it
FallbackPayloadSpread(o) ==
  [prompt |-> o.prompt, locale |-> o.locale, timezone |-> o.timezone, now |-> o.now,
   signal |-> o.signal, config |-> o.config]

\* the payload handed to runFallback
FallbackPayload(o) ==
  [prompt |-> o.prompt, locale |-> o.locale, timezone |-> o.timezone, now |-> o.now]

\* the request with the raw config left in place
ProviderRequestRaw(o, v) ==
  [prompt |-> o.prompt, locale |-> o.locale, timezone |-> o.timezone, now |-> o.now,
   signal |-> o.signal, config |-> o.config]

\* { ...rest, config: validation.data }
ProviderRequest(o, v) ==
  [prompt |-> o.prompt, locale |-> o.locale, timezone |-> o.timezone, now |-> o.now,
   signal |-> o.signal, config |-> v.data]

\* a runFallback that turns to the chrono-node interpreter when none is configured
runFallbackDefault(configured, payload) == fallbackInterpreter(payload)

\* runFallback(payload): null without a fallback, else the fallback's answer
runFallback(configured, payload) ==
  IF ~configured THEN [found |-> FALSE, result |-> NoResult]
  ELSE fallbackInterpreter(payload)

\* the provider's failure caught and rethrown as a new error
PropagateWrapped(p) ==
  IF p.kind = "error"
  THEN [p EXCEPT !.error = Err("Error", "Interpretation failed", p.error.msg, 0)]
  ELSE p

\* return provider.interpretDate(..): the call settles as the provider's promise
Propagate(p) == p

\* interpretDate(options) is called on an idle dispatcher
Call(o) ==
  /\ pc = "idle"
  /\ calls < MaxCalls
  /\ options' = o
  /\ pc' = "resolve"
  /\ UNCHANGED <<registered, hasFallback, calls, aborted, abortedAt, validation,
                 events, fbPayload,
                 outcome>>
  /\ UNCHANGED pvars
  /\ UNCHANGED nvars

\* the awaits of a provider at which the call is suspended and other code runs
Suspended == ppc \in {"fetch", "text", "json", "availability", "create", "prompt"}

\* the caller aborts the signal it passed: before the call starts to run, or
\* while the call is suspended at an await of its provider
Abort ==
  /\ pc = "resolve" \/ (pc = "await" /\ Suspended)
  /\ options.signal
  /\ ~aborted
  /\ aborted' = TRUE
  /\ abortedAt' = IF pc = "resolve" THEN "before the call" ELSE ppc
  /\ UNCHANGED <<registered, hasFallback, calls, pc, options, validation, events,
                 fbPayload, outcome>>
  /\ UNCHANGED pvars
  /\ UNCHANGED nvars

\* lines 21-26: look the provider up, throw when there is none
ResolveProvider ==
  /\ pc = "resolve"
  /\ events' = Append(events, "resolve")
  /\ IF Resolve(registered, options.providerId)
     THEN /\ pc' = "validate"
          /\ outcome' = outcome
     ELSE /\ pc' = "failed"
          /\ outcome' = Rejected(UnknownProvider(options.providerId))
  /\ UNCHANGED <<registered, hasFallback, calls, options, aborted, abortedAt,
                 validation, fbPayload>>
  /\ UNCHANGED pvars
  /\ UNCHANGED nvars

\* lines 28-31: validate the config with the provider's schema
ValidateConfig ==
  /\ pc = "validate"
  /\ validation' = configSchema(options.providerId, options.config)
  /\ events' = Append(events, "safeParse")
  /\ pc' = Route(validation')
  /\ UNCHANGED <<registered, hasFallback, calls, options, aborted, abortedAt,
                 fbPayload, outcome>>
  /\ UNCHANGED pvars
  /\ UNCHANGED nvars

\* a dispatcher that drops its fallback once it has used it
InvokeFallbackOnce ==
  /\ pc = "fallback"
  /\ fbPayload' = FallbackPayload(options)
  /\ hasFallback' = FALSE
  /\ LET fb == runFallback(hasFallback, fbPayload')
     IN  /\ events' = events \o <<"runFallback">>
                        \o (IF hasFallback THEN <<"fallback">> ELSE <<>>)
         /\ IF fb.found
            THEN /\ outcome' = Fulfilled(fb.result)
                 /\ pc' = "done"
            ELSE /\ outcome' = Rejected(InvalidConfiguration(validation))
                 /\ pc' = "failed"
  /\ UNCHANGED <<registered, calls, options, aborted, abortedAt, validation>>
  /\ UNCHANGED pvars
  /\ UNCHANGED nvars

\* lines 32-43 and 48-54: the config is invalid, try the fallback
InvokeFallback ==
  /\ pc = "fallback"
  /\ fbPayload' = FallbackPayload(options)
  /\ LET fb == runFallback(hasFallback, fbPayload')
     IN  /\ events' = events \o <<"runFallback">>
                        \o (IF hasFallback THEN <<"fallback">> ELSE <<>>)
         /\ IF fb.found
            THEN /\ outcome' = Fulfilled(fb.result)
                 /\ pc' = "done"
            ELSE /\ outcome' = Rejected(InvalidConfiguration(validation))
                 /\ pc' = "failed"
  /\ UNCHANGED <<registered, hasFallback, calls, options, aborted, abortedAt, validation>>
  /\ UNCHANGED pvars
  /\ UNCHANGED nvars

\* line 45: the config is valid, call the provider with the validated config
InvokeProvider ==
  /\ pc = "provider"
  /\ request' = ProviderRequest(options, validation)
  /\ events' = Append(events, "provider")
  /\ ppc' = "start"
  /\ pc' = "await"
  /\ UNCHANGED <<registered, hasFallback, calls, options, aborted, abortedAt,
                 validation, fbPayload,
                 outcome>>
  /\ UNCHANGED <<transport, sessions, lm, pout, console>>
  /\ UNCHANGED nvars

\* a dispatcher that turns to the fallback when the provider has failed
SettleProviderFallsBack ==
  /\ pc = "await"
  /\ ppc \in {"returned", "threw"}
  /\ IF pout.kind = "result"
     THEN /\ outcome' = pout
          /\ pc' = "done"
     ELSE /\ outcome' = outcome
          /\ pc' = "fallback"
  /\ UNCHANGED <<registered, hasFallback, calls, options, aborted, abortedAt, validation,
                 events, fbPayload>>
  /\ UNCHANGED pvars
  /\ UNCHANGED nvars

\* line 45: the provider's promise has settled, and the call settles with it
SettleProvider ==
  /\ pc = "await"
  /\ ppc \in {"returned", "threw"}
  /\ outcome' = Propagate(pout)
  /\ pc' = IF outcome'.kind = "result" THEN "done" ELSE "failed"
  /\ UNCHANGED <<registered, hasFallback, calls, options, aborted, abortedAt,
                 validation, events,
                 fbPayload>>
  /\ UNCHANGED pvars
  /\ UNCHANGED nvars

\* the call is over: the locals of the call and of the provider are gone
Forget ==
  /\ pc \in {"done", "failed"}
  /\ calls' = calls + 1
  /\ pc' = "idle"
  /\ options' = NoOptions
  /\ aborted' = FALSE
  /\ abortedAt' = ""
  /\ validation' = NoValidation
  /\ events' = <<>>
  /\ fbPayload' = NoRequest
  /\ outcome' = Pending
  /\ ppc' = "none"
  /\ request' = NoRequest
  /\ transport' = NoTransport
  /\ sessions' = NoSessions
  /\ lm' = NoLm
  /\ pout' = Pending
  /\ console' = <<>>
  /\ UNCHANGED <<registered, hasFallback>>

\* the caller has the outcome; the dispatcher keeps nothing of the call
Return ==
  /\ Forget
  /\ UNCHANGED nvars

(***************************************************************************)
(* What a backend can answer                                               *)
(***************************************************************************)
Fields1(k1, v1) == [k \in {k1} |-> v1]
Fields2(k1, v1, k2, v2) == [k \in {k1, k2} |-> IF k = k1 THEN v1 ELSE v2]

XmasStr == Str("2025-12-25T00:00:00+08:00")

\* the objects a model answers with in the runs of the providers
ResponseFields ==
  { Fields2("value", XmasStr, "confidence", Num(9)),
    Fields1("value", Str("tomorrow")),
    Fields1("value", Str("")),
    Fields1("confidence", Num(9)),
    Fields1("value", Num(5)),
    [k \in {"value", "timezone", "confidence", "reasoning"} |->
       CASE k = "value" -> IsoStr(24)
         [] k = "timezone" -> Null
         [] k = "confidence" -> Num(MaxNum)
         [] OTHER -> Str("next day at midnight")] }

\* the content of a response: the text of an object, the object itself, a text
\* wrapped in prose, an empty text, or nothing
Candidates ==
  { Text(JSONStringify(f)) : f \in ResponseFields }
    \cup { Obj(Fields2("value", XmasStr, "confidence", Num(9))) }
    \cup { Text(<<Junk>> \o JSONStringify(Fields1("value", XmasStr))), Text(<<>>),
           V(Undefined) }

\* the JSON bodies of an HTTP response, by the envelope around the content:
\* { choices: [{ message: { content } }] }, { message: { content } }, or neither
Bodies ==
  { Raw(shape, c, 0) : shape \in {"choices", "message"}, c \in Candidates }
    \cup { Raw("other", V(Undefined), 0) }

\* the texts session.prompt can resolve to
PromptTexts == { c \in Candidates : c.t = "text" }

(***************************************************************************)
(* BaseLLMProvider.getSystemPrompt and the HTTP providers                  *)
(***************************************************************************)
\* what the system prompt is built from: the timezone and the reference time
getSystemPrompt(context) ==
  [timezone |-> Coalesce(context.timezone, LocalTimeZone), now |-> context.now]

DefaultModel(id) == IF id = "lmstudio" THEN "openai/gpt-oss-20b" ELSE "llama3.2:3b"

\* validation.data.model || this.defaultConfig.model
ModelOf(id, data) ==
  IF Truthy(Get(data, "model")) THEN Get(data, "model").s ELSE DefaultModel(id)

\* a fetch call that leaves the signal out of its options
FetchRequestNoSignal(id, req, data) ==
  [base |-> Get(data, "baseUrl").s,
   path |-> IF id = "lmstudio" THEN "/chat/completions" ELSE "/api/chat",
   model |-> ModelOf(id, data),
   stream |-> IF id = "ollama" THEN "false" ELSE "unset",
   signal |-> FALSE,
   system |-> getSystemPrompt([timezone |-> req.timezone,
                               now |-> Coalesce(req.now, DateObj(CurrentTime))]),
   user |-> req.prompt,
   status |-> 0, statusText |-> "", data |-> NoRaw]

\* the request fetch is called with
FetchRequest(id, req, data) ==
  [base |-> Get(data, "baseUrl").s,
   path |-> IF id = "lmstudio" THEN "/chat/completions" ELSE "/api/chat",
   model |-> ModelOf(id, data),
   stream |-> IF id = "ollama" THEN "false" ELSE "unset",
   signal |-> req.signal,
   system |-> getSystemPrompt([timezone |-> req.timezone,
                               now |-> Coalesce(req.now, DateObj(CurrentTime))]),
   user |-> req.prompt,
   status |-> 0, statusText |-> "", data |-> NoRaw]

\* data?.choices?.[0]?.message?.content, data?.message?.content
Content(id, data) ==
  IF (id = "lmstudio" /\ data.shape = "choices") \/ (id = "ollama" /\ data.shape = "message")
  THEN data.content
  ELSE V(Undefined)

InvalidConfig(v) == Err("Error", "Invalid config", v.issue, 0)
AbortError == Err("AbortError", "The operation was aborted.", "", 0)
NetworkError == Err("TypeError", "Failed to fetch", "", 0)
BodySyntaxError == Err("SyntaxError", "Unexpected token", "", 0)
RequestFailed(id, status, statusText) ==
  Err("Error", IF id = "lmstudio" THEN "LLMStudio request failed" ELSE "Ollama request failed",
      statusText, status)

HttpIds == {"lmstudio", "ollama"}
IsHttp == options.providerId \in HttpIds

\* the provider's promise settles
Settle(p) ==
  /\ pout' = p
  /\ ppc' = IF p.kind = "result" THEN "returned" ELSE "threw"

\* a provider that sends the request without looking at the config
HttpStartUnchecked ==
  /\ ppc = "start"
  /\ IsHttp
  /\ transport' = FetchRequest(options.providerId, request, request.config)
  /\ events' = Append(events, "fetch")
  /\ ppc' = "fetch"
  /\ pout' = pout
  /\ UNCHANGED <<registered, hasFallback, calls, pc, options, aborted, abortedAt,
                 validation,
                 fbPayload, outcome>>
  /\ UNCHANGED <<request, sessions, lm, console>>
  /\ UNCHANGED nvars

\* lmstudio.tsx 57-86, chrome-ai.tsx 430-460: validate the config, send the request
HttpStart ==
  /\ ppc = "start"
  /\ IsHttp
  /\ LET v == configSchema(options.providerId, request.config)
     IN  IF ~v.success
         THEN /\ Settle(Rejected(InvalidConfig(v)))
              /\ UNCHANGED <<transport, events>>
         ELSE /\ transport' = FetchRequest(options.providerId, request, v.data)
              /\ events' = Append(events, "fetch")
              /\ ppc' = "fetch"
              /\ pout' = pout
  /\ UNCHANGED <<registered, hasFallback, calls, pc, options, aborted, abortedAt,
                 validation,
                 fbPayload, outcome>>
  /\ UNCHANGED <<request, sessions, lm, console>>
  /\ UNCHANGED nvars

\* await fetch(..): an abort or a network failure rejects it, else a response
\* arrives with its status line
HttpFetch ==
  /\ ppc = "fetch"
  /\ IF transport.signal /\ aborted
     THEN /\ Settle(Rejected(AbortError))
          /\ UNCHANGED transport
     ELSE \/ /\ Settle(Rejected(NetworkError))
             /\ UNCHANGED transport
          \/ /\ \E st \in {<<200, "OK">>, <<404, "Not Found">>,
                           <<500, "Internal Server Error">>} :
                  transport' = [transport EXCEPT !.status = st[1], !.statusText = st[2]]
             /\ ppc' = "response"
             /\ pout' = pout
  /\ UNCHANGED dvars
  /\ UNCHANGED <<request, sessions, lm, console>>
  /\ UNCHANGED nvars

\* response.ok is status in 200..299
ResponseOk(t) == t.status >= 200 /\ t.status <= 299

\* lmstudio.tsx 88-90, chrome-ai.tsx 462-463: on a non-success status LM Studio
\* throws at once, Ollama first awaits the text of the body
HttpStatus ==
  /\ ppc = "response"
  /\ IF ResponseOk(transport)
     THEN /\ ppc' = "json"
          /\ pout' = pout
     ELSE IF options.providerId = "ollama"
     THEN /\ ppc' = "text"
          /\ pout' = pout
     ELSE Settle(Rejected(RequestFailed(options.providerId, transport.status,
                                        transport.statusText)))
  /\ UNCHANGED dvars
  /\ UNCHANGED <<request, transport, sessions, lm, console>>
  /\ UNCHANGED nvars

\* chrome-ai.tsx 463-465: await response.text() rejects on an abort or a network
\* failure, else the error with the status line and the text is thrown
OllamaErrorText ==
  /\ ppc = "text"
  /\ IF transport.signal /\ aborted
     THEN Settle(Rejected(AbortError))
     ELSE \/ Settle(Rejected(RequestFailed(options.providerId, transport.status,
                                           transport.statusText)))
          \/ Settle(Rejected(NetworkError))
  /\ UNCHANGED dvars
  /\ UNCHANGED <<request, transport, sessions, lm, console>>
  /\ UNCHANGED nvars

\* lmstudio.tsx 92-95, chrome-ai.tsx 467-470: read the body as JSON, take the
\* content out of the envelope and normalise it
HttpJson ==
  /\ ppc = "json"
  /\ IF transport.signal /\ aborted
     THEN /\ Settle(Rejected(AbortError))
          /\ UNCHANGED <<transport, console, events>>
     ELSE \/ /\ Settle(Rejected(BodySyntaxError))
             /\ UNCHANGED <<transport, console, events>>
          \/ \E data \in Bodies :
               LET r == parseResponse(options.providerId,
                                      Content(options.providerId, data), data)
               IN  /\ transport' = [transport EXCEPT !.data = data]
                   /\ events' = Append(events, "parseResponse")
                   /\ console' = console \o r.console
                   /\ Settle(IF r.ok THEN Fulfilled(r.result) ELSE Rejected(r.error))
  /\ UNCHANGED <<registered, hasFallback, calls, pc, options, aborted, abortedAt,
                 validation,
                 fbPayload, outcome>>
  /\ UNCHANGED <<request, sessions, lm>>
  /\ UNCHANGED nvars

(***************************************************************************)
(* ChromeAIProvider and CloudProvidersProvider                             *)
(***************************************************************************)
ChromeUnavailable == Err("Error", "Chrome AI is not available.", "", 0)
ChromeNotReady == Err("Error", "Chrome AI model is not ready.", "", 0)
CloudUnavailable == Err("Error", "Cloud providers are not yet available.", "", 0)

\* what LanguageModel.create and session.prompt can reject with: an Error, a
\* DOMException (which is an Error too), or a thrown value that is no Error
NotAnError == "(no Error)"
Thrown ==
  { Err("Error", "The model crashed.", "", 0),
    AbortError,
    Err(NotAnError, "a thrown string", "", 0) }

\* catch (error): an Error is replaced by a new Error quoting its message
ChromeCatch(e) ==
  IF e.name # NotAnError THEN Err("Error", "Chrome AI request failed", e.msg, 0) ELSE e

\* a finally clause that calls destroy() without looking at the session
DestroyUnguarded(s) == [s EXCEPT !.destroyed = s.destroyed + 1]

\* finally: if (session) session.destroy()
Destroy(s) == IF s.created > s.destroyed THEN [s EXCEPT !.destroyed = s.destroyed + 1] ELSE s

IsChrome == options.providerId = "chrome-ai"

\* chrome-ai.tsx 228-235: typeof LanguageModel === 'undefined' throws
ChromeStart ==
  /\ ppc = "start"
  /\ IsChrome
  /\ \E defined \in BOOLEAN :
       /\ lm' = [lm EXCEPT !.defined = IF defined THEN "yes" ELSE "no"]
       /\ IF defined
          THEN /\ ppc' = "availability"
               /\ pout' = pout
          ELSE Settle(Rejected(ChromeUnavailable))
  /\ UNCHANGED dvars
  /\ UNCHANGED <<request, transport, sessions, console>>
  /\ UNCHANGED nvars

\* a check that lets a model that still has to be downloaded through
ReadyUnlessNo(available) == available # "no"

\* availability.available !== 'readily' throws
Ready(available) == available = "readily"

\* chrome-ai.tsx 237-258: the availability answer, the config check, and the
\* call of LanguageModel.create
ChromeAvailability ==
  /\ ppc = "availability"
  /\ \E available \in {"readily", "after-download", "no"} :
       LET v == configSchema("chrome-ai", request.config)
       IN  /\ lm' = [lm EXCEPT !.available = available]
           /\ IF ~Ready(available)
              THEN /\ Settle(Rejected(ChromeNotReady))
                   /\ UNCHANGED <<transport, events>>
              ELSE IF ~v.success
              THEN /\ Settle(Rejected(InvalidConfig(v)))
                   /\ UNCHANGED <<transport, events>>
              ELSE /\ transport' =
                        [NoTransport EXCEPT
                           !.system = getSystemPrompt(
                                        [timezone |-> request.timezone,
                                         now |-> Coalesce(request.now, DateObj(CurrentTime))])]
                   /\ events' = Append(events, "create")
                   /\ ppc' = "create"
                   /\ pout' = pout
  /\ UNCHANGED <<registered, hasFallback, calls, pc, options, aborted, abortedAt,
                 validation,
                 fbPayload, outcome>>
  /\ UNCHANGED <<request, sessions, console>>
  /\ UNCHANGED nvars

\* chrome-ai.tsx 254-272: the session is created and prompted, or create rejects
ChromeCreate ==
  /\ ppc = "create"
  /\ \/ /\ sessions' = [sessions EXCEPT !.created = sessions.created + 1]
        /\ transport' = [transport EXCEPT !.user = request.prompt]
        /\ events' = Append(events, "prompt")
        /\ ppc' = "prompt"
        /\ pout' = pout
     \/ /\ \E e \in Thrown : Settle(Rejected(ChromeCatch(e)))
        /\ sessions' = Destroy(sessions)
        /\ UNCHANGED <<transport, events>>
  /\ UNCHANGED <<registered, hasFallback, calls, pc, options, aborted, abortedAt,
                 validation,
                 fbPayload, outcome>>
  /\ UNCHANGED <<request, lm, console>>
  /\ UNCHANGED nvars

\* chrome-ai.tsx 272-286: the answer is normalised, or prompt rejects; either
\* way the catch clause rewrites an Error and the session is destroyed
ChromePrompt ==
  /\ ppc = "prompt"
  /\ \/ \E text \in PromptTexts :
          LET r == parseResponse("chrome-ai", text, Raw("rawResponse", text, 0))
          IN  /\ transport' = [transport EXCEPT !.data = Raw("rawResponse", text, 0)]
              /\ events' = Append(events, "parseResponse")
              /\ console' = console \o r.console
              /\ Settle(IF r.ok THEN Fulfilled(r.result) ELSE Rejected(ChromeCatch(r.error)))
     \/ /\ \E e \in Thrown : Settle(Rejected(ChromeCatch(e)))
        /\ UNCHANGED <<transport, events, console>>
  /\ sessions' = Destroy(sessions)
  /\ UNCHANGED <<registered, hasFallback, calls, pc, options, aborted, abortedAt,
                 validation,
                 fbPayload, outcome>>
  /\ UNCHANGED <<request, lm>>
  /\ UNCHANGED nvars

\* an interpretDate that answers with a placeholder instead of throwing
CloudInterpretPlaceholder ==
  /\ ppc = "start"
  /\ options.providerId = "cloud"
  /\ Settle(Fulfilled(DateInterpretation("cloud", IsoStr(CurrentTime), Undefined, Undefined,
                                         Undefined, NoRaw)))
  /\ UNCHANGED dvars
  /\ UNCHANGED <<request, transport, sessions, lm, console>>
  /\ UNCHANGED nvars

\* cloud-providers.tsx 370-372: always throws
CloudInterpret ==
  /\ ppc = "start"
  /\ options.providerId = "cloud"
  /\ Settle(Rejected(CloudUnavailable))
  /\ UNCHANGED dvars
  /\ UNCHANGED <<request, transport, sessions, lm, console>>
  /\ UNCHANGED nvars

(***************************************************************************)
(* The system: a dispatcher serving calls                                  *)
(***************************************************************************)
Next ==
  \/ \E o \in Options : Call(o)
  \/ Abort
  \/ ResolveProvider
  \/ ValidateConfig
  \/ InvokeFallback
  \/ InvokeProvider
  \/ HttpStart
  \/ HttpFetch
  \/ HttpStatus
  \/ OllamaErrorText
  \/ HttpJson
  \/ ChromeStart
  \/ ChromeAvailability
  \/ ChromeCreate
  \/ ChromePrompt
  \/ CloudInterpret
  \/ SettleProvider
  \/ Return

Spec == Init /\ [][Next]_vars

(***************************************************************************)
(* Response normalisation alone, over every candidate of the bounds        *)
(***************************************************************************)
Absent == Prim("absent", 0, "")

\* the object with the given fields, Absent standing for a missing key
Fields4(value, tz, conf, why) ==
  LET f == [k \in {"value", "timezone", "confidence", "reasoning"} |->
              CASE k = "value" -> value [] k = "timezone" -> tz
                [] k = "confidence" -> conf [] OTHER -> why]
  IN  [k \in {x \in DOMAIN f : f[x] # Absent} |-> f[k]]

AllResponseFields ==
  { Fields4(value, tz, conf, why) :
      value \in {Absent, XmasStr, IsoStr(24), Str("tomorrow"), Str(""), Num(5), Null,
                 Bool(TRUE)},
      tz \in {Absent, Str("Asia/Shanghai"), Null},
      conf \in {Absent, Str("high")} \cup { Num(n) : n \in -1 .. MaxNum },
      why \in {Absent, Str("because"), Num(1)} }

\* texts that are no JSON: cut short, wrapped in prose, or with a stray comma
BrokenTexts ==
  { Text(<<LBrace, Str("value"), Colon, XmasStr>>),
    Text(<<Junk, LBrace, Str("value"), Colon, XmasStr, RBrace>>),
    Text(<<LBrace, Str("value"), Colon, XmasStr, Comma, RBrace>>),
    Text(<<LBrace, Str("value"), XmasStr, RBrace>>),
    Text(<<Junk>>),
    Text(<<>>) }

\* texts of JSON values that are no object, and an object with a repeated key
OddTexts ==
  { Text(<<XmasStr>>), Text(<<Num(5)>>), Text(<<Null>>),
    Text(<<LBrace, Str("value"), Colon, Str("tomorrow"), Comma,
           Str("value"), Colon, XmasStr, RBrace>>) }

AllCandidates ==
  { Text(JSONStringify(f)) : f \in AllResponseFields }
    \cup { Obj(f) : f \in AllResponseFields }
    \cup BrokenTexts \cup OddTexts
    \cup { V(Undefined), V(Null), V(Num(5)), V(Num(0)), V(Bool(TRUE)) }

ParseInputs ==
  [id : ProviderIds, candidate : AllCandidates,
   raw : {Raw("choices", V(Str("payload")), 0), Raw("rawResponse", V(Str("payload")), 0)}]

InitParse ==
  /\ registered = ProviderIds
  /\ hasFallback = TRUE
  /\ calls = 0
  /\ CallReset
  /\ pin \in ParseInputs
  /\ presult = NoParse
  /\ fin = NoRequest
  /\ fres = NoFallbackRun
  /\ stub = NoStub
  /\ last = NoLast
  /\ picker = NoPicker
  /\ component = NoComponent

\* this.parseResponse(candidate, rawResponse)
Normalise ==
  /\ presult = NoParse
  /\ presult' = parseResponse(pin.id, pin.candidate, pin.raw)
  /\ UNCHANGED <<pin, fin, fres, stub, last, picker, component>>
  /\ UNCHANGED dvars
  /\ UNCHANGED pvars

NextParse == Normalise

SpecParse == InitParse /\ [][NextParse]_vars

(***************************************************************************)
(* The fallback interpreter alone, over every payload of the bounds        *)
(***************************************************************************)
FallbackPayloads ==
  [prompt : Prompts \cup {""},
   locale : {Undefined, Str("en-US")},
   timezone : {Undefined, Null, Str("Asia/Shanghai")},
   now : {Undefined} \cup { DateObj(n) : n \in 0..MaxRef }]

InitFallback ==
  /\ registered = ProviderIds
  /\ hasFallback = TRUE
  /\ calls = 0
  /\ CallReset
  /\ pin = NoInput
  /\ presult = NoParse
  /\ fin \in FallbackPayloads
  /\ fres = NoFallbackRun
  /\ stub = NoStub
  /\ last = NoLast
  /\ picker = NoPicker
  /\ component = NoComponent

\* await fallbackInterpreter(payload): the parser is called and the promise
\* resolves to null or to a DateInterpretation
RunFallback ==
  /\ ~fres.called
  /\ LET r == fallbackInterpreter(fin)
     IN  fres' = [called |-> TRUE, args |-> ChronoArgs(fin),
                  kind |-> IF r.found THEN "result" ELSE "null", result |-> r.result]
  /\ UNCHANGED <<pin, presult, fin, stub, last, picker, component>>
  /\ UNCHANGED dvars
  /\ UNCHANGED pvars

NextFallback == RunFallback

SpecFallback == InitFallback /\ [][NextFallback]_vars

(***************************************************************************)
(* Repeated calls against stubbed backends that are functions of the input *)
(***************************************************************************)
PromptsTwice == {"tomorrow at 3pm", "qwerty"}

\* what a stubbed backend does with a request: the fate of the fetch, the
\* status and the content of its response, and for the LanguageModel stub its
\* availability and the fate of the session
Script(net, status, content, available, session) ==
  [net |-> net, status |-> status, content |-> content, available |-> available,
   session |-> session]

Scripts ==
  { Script("up", 200, Text(JSONStringify(Fields2("value", XmasStr, "confidence", Num(9)))),
           "readily", "answers"),
    Script("up", 200, Text(JSONStringify(Fields1("confidence", Num(9)))),
           "readily", "prompt rejects"),
    Script("up", 500, Text(<<>>), "after-download", "answers"),
    Script("up", 200, Text(JSONStringify(Fields1("value", Str("tomorrow")))),
           "readily", "create rejects"),
    Script("down", 0, Text(<<>>), "undefined", "answers") }

\* a stub is a function of the request: here, of its prompt
Stubs == [PromptsTwice -> Scripts]

\* the requests the repeated calls are made with
OptionsTwice ==
  { o \in Options :
      /\ o.config \in {V(Undefined), Obj([k \in {"baseUrl"} |-> Str(Url)])}
      /\ o.prompt \in PromptsTwice
      /\ o.now = DateObj(0)
      /\ ~o.signal }

InitTwice ==
  /\ registered = ProviderIds
  /\ hasFallback \in BOOLEAN
  /\ calls = 0
  /\ CallReset
  /\ pin = NoInput
  /\ presult = NoParse
  /\ fin = NoRequest
  /\ fres = NoFallbackRun
  /\ stub \in Stubs
  /\ last = NoLast
  /\ picker = NoPicker
  /\ component = NoComponent

\* interpretDate(options) is called again on the same dispatcher
CallAgain(o) ==
  /\ pc = "idle"
  /\ calls <= MaxCalls
  /\ options' = o
  /\ pc' = "resolve"
  /\ UNCHANGED <<registered, hasFallback, calls, aborted, abortedAt, validation, events,
                 fbPayload, outcome>>
  /\ UNCHANGED pvars
  /\ UNCHANGED nvars

\* the step of a provider is the one the stub dictates for the request
Conforms ==
  LET script == stub[options.prompt]
      crash == Err("Error", "The model crashed.", "", 0)
  IN  /\ ppc = "fetch" =>
           IF script.net = "down" THEN pout' = Rejected(NetworkError)
           ELSE transport'.status = script.status
      /\ ppc = "text" =>
           pout' = Rejected(RequestFailed(options.providerId, transport.status,
                                          transport.statusText))
      /\ ppc = "json" =>
           transport'.data = Raw(IF options.providerId = "lmstudio" THEN "choices"
                                 ELSE "message", script.content, 0)
      /\ ppc = "start" /\ IsChrome =>
           lm'.defined = IF script.available = "undefined" THEN "no" ELSE "yes"
      /\ ppc = "availability" => lm'.available = script.available
      /\ ppc = "create" =>
           IF script.session = "create rejects" THEN pout' = Rejected(ChromeCatch(crash))
           ELSE ppc' = "prompt"
      /\ ppc = "prompt" =>
           IF script.session = "prompt rejects" THEN pout' = Rejected(ChromeCatch(crash))
           ELSE transport'.data = Raw("rawResponse", script.content, 0)

\* the caller has the outcome and remembers it for the comparison; the
\* dispatcher keeps nothing of the call
ReturnTwice ==
  /\ Forget
  /\ last' = [settled |-> TRUE, options |-> options, outcome |-> outcome]
  /\ UNCHANGED <<pin, presult, fin, fres, stub, picker, component>>

NextTwice ==
  \/ \E o \in OptionsTwice : CallAgain(o)
  \/ ResolveProvider
  \/ ValidateConfig
  \/ InvokeFallback
  \/ InvokeProvider
  \/ HttpStart /\ Conforms
  \/ HttpFetch /\ Conforms
  \/ HttpStatus /\ Conforms
  \/ OllamaErrorText /\ Conforms
  \/ HttpJson /\ Conforms
  \/ ChromeStart /\ Conforms
  \/ ChromeAvailability /\ Conforms
  \/ ChromeCreate /\ Conforms
  \/ ChromePrompt /\ Conforms
  \/ CloudInterpret
  \/ SettleProvider
  \/ ReturnTwice

SpecTwice == InitTwice /\ [][NextTwice]_vars

(***************************************************************************)
(* LlmDatePicker: the input, the submit button and handleSubmit            *)
(***************************************************************************)
\* what the user can have typed: nothing, blanks, a prompt
PickerInputs == {"", "   ", "tomorrow at 3pm"}

\* an emptiness test on the text as typed
TrimNothing(text) == text

\* input.trim()
Trim(text) == IF text = "   " THEN "" ELSE text

\* activeProviderId is null or undefined
NoProvider == "none"

\* the provider lists a picker is mounted with
PickerProviders == { ProviderIds, {} }

\* providerConfigs: the defaults of the providers, a store in which every local
\* provider has been given a URL, and a saved '{}' that holds no config at all
PickerStores ==
  { [id \in ProviderIds |->
       CASE id \in {"lmstudio", "ollama"} ->
              Obj([k \in {"baseUrl", "model"} |->
                     IF k = "baseUrl" THEN Str("") ELSE Str("llama3.2:3b")])
         [] id = "chrome-ai" ->
              Obj([k \in {"temperature", "topK"} |->
                     IF k = "temperature" THEN Num(8) ELSE Num(30)])
         [] OTHER -> Obj(NoFields)],
    [id \in ProviderIds |->
       CASE id \in {"lmstudio", "ollama"} -> Obj([k \in {"baseUrl"} |-> Str(Url)])
         [] id = "chrome-ai" ->
              Obj([k \in {"temperature", "topK"} |->
                     IF k = "temperature" THEN Num(8) ELSE Num(30)])
         [] OTHER -> Obj(NoFields)],
    [id \in ProviderIds |-> V(Undefined)] }

\* new Date(value)
NewDate(p) ==
  IF DateParses(p) THEN Prim("date", p.n, p.s) ELSE Prim("date", 0, "Invalid Date")

\* a picker that reports whatever new Date gave it
IsNaNDateNever(d) == FALSE

\* isNaN(date.getTime())
IsNaNDate(d) == d.s = "Invalid Date"

\* the last handleSubmit: what it saw and which way it went
NoSubmit == [took |-> "none", input |-> "", active |-> NoProvider, configured |-> FALSE]

InitPicker ==
  /\ registered \in PickerProviders
  /\ hasFallback = TRUE
  /\ calls = 0
  /\ CallReset
  /\ pin = NoInput
  /\ presult = NoParse
  /\ fin = NoRequest
  /\ fres = NoFallbackRun
  /\ stub = NoStub
  /\ last = NoLast
  /\ component = NoComponent
  /\ \E first \in (IF registered = {} THEN {NoProvider} ELSE registered),
        store \in PickerStores, hasOnChange \in BOOLEAN :
       picker = [input |-> "", active |-> first, store |-> store, dialog |-> NoProvider,
                 isResolving |-> FALSE, hasError |-> FALSE, hasOnChange |-> hasOnChange,
                 reported |-> <<>>, outstanding |-> 0, seen |-> Pending,
                 submit |-> NoSubmit]

\* the picker takes a step that is none of the interpreter's
PickerOnly ==
  /\ UNCHANGED dvars
  /\ UNCHANGED pvars
  /\ UNCHANGED <<pin, presult, fin, fres, stub, last, component>>

\* <input disabled={isResolving}>
InputEnabled(p) == ~p.isResolving

\* a submit button that stays enabled while an interpretation is pending
ButtonEnabledWhileResolving(p) == Trim(p.input) # ""

\* <button disabled={!input.trim() || isResolving}>
ButtonEnabled(p) == Trim(p.input) # "" /\ ~p.isResolving

\* lines 251-254: the user edits the text
TypeInput(text) ==
  /\ InputEnabled(picker)
  /\ text # picker.input
  /\ picker' = [picker EXCEPT !.input = text, !.hasError = FALSE, !.seen = Pending]
  /\ PickerOnly

\* handleProviderSelect
SelectProvider(id) ==
  /\ id \in registered
  /\ id # picker.active
  /\ picker' = [picker EXCEPT !.active = id]
  /\ PickerOnly

\* onOpenChange(false) of the open dialog
CloseDialog ==
  /\ picker.dialog # NoProvider
  /\ picker' = [picker EXCEPT !.dialog = NoProvider]
  /\ PickerOnly

\* line 84: the stored config of the provider passes its schema
Configured(p) ==
  p.active \in ProviderIds /\ configSchema(p.active, p.store[p.active]).success

\* lines 67-97: handleSubmit up to its await
handleSubmit ==
  LET id == picker.active
      seenNow == [input |-> picker.input, active |-> id, configured |-> Configured(picker)]
      Took(way) == [took |-> way] @@ seenNow
  IN  IF Trim(picker.input) = ""
      THEN /\ picker' = [picker EXCEPT !.submit = Took("return")]
           /\ PickerOnly
      ELSE IF id = NoProvider \/ id = "cloud"
      THEN /\ picker' = [picker EXCEPT !.dialog = "cloud", !.submit = Took("cloud dialog")]
           /\ PickerOnly
      ELSE IF id \in registered /\ ~Configured(picker)
      THEN /\ picker' = [picker EXCEPT !.dialog = id, !.submit = Took("config dialog")]
           /\ PickerOnly
      ELSE /\ picker' = [picker EXCEPT !.isResolving = TRUE, !.hasError = FALSE,
                                       !.outstanding = @ + 1, !.seen = Pending,
                                       !.submit = Took("interpreter")]
           /\ IF pc = "idle"
              THEN /\ options' = [providerId |-> id, config |-> picker.store[id],
                                  prompt |-> picker.input, locale |-> Undefined,
                                  timezone |-> Undefined, now |-> Undefined,
                                  signal |-> FALSE]
                   /\ pc' = "resolve"
              ELSE UNCHANGED <<options, pc>>
           /\ UNCHANGED <<registered, hasFallback, calls, aborted, abortedAt, validation,
                          events, fbPayload, outcome>>
           /\ UNCHANGED pvars
           /\ UNCHANGED <<pin, presult, fin, fres, stub, last, component>>

\* lines 255-260: Enter in the input
PressEnter ==
  /\ calls < MaxCalls
  /\ InputEnabled(picker)
  /\ handleSubmit

\* line 269: a click on the submit button
ClickSubmit ==
  /\ calls < MaxCalls
  /\ ButtonEnabled(picker)
  /\ handleSubmit

\* a handler whose reset of isResolving sits at the end of the try block
PickerSettleNoFinally ==
  /\ picker.outstanding > 0
  /\ Forget
  /\ LET date == NewDate(outcome.result.value)
         valid == outcome.kind = "result" /\ ~IsNaNDate(date)
     IN  picker' = [picker EXCEPT
                      !.isResolving = ~valid,
                      !.hasError = IF valid THEN @ ELSE TRUE,
                      !.reported = IF ~picker.hasOnChange THEN @
                                   ELSE Append(@, IF valid THEN date ELSE Null),
                      !.outstanding = @ - 1,
                      !.seen = outcome]
  /\ UNCHANGED <<pin, presult, fin, fres, stub, last, component>>

\* lines 99-117: the interpreter's promise has settled; the value is parsed and
\* reported, or the failure is, and isResolving is reset
PickerSettle ==
  /\ picker.outstanding > 0
  /\ Forget
  /\ LET date == NewDate(outcome.result.value)
         valid == outcome.kind = "result" /\ ~IsNaNDate(date)
     IN  picker' = [picker EXCEPT
                      !.isResolving = FALSE,
                      !.hasError = IF valid THEN @ ELSE TRUE,
                      !.reported = IF ~picker.hasOnChange THEN @
                                   ELSE Append(@, IF valid THEN date ELSE Null),
                      !.outstanding = @ - 1,
                      !.seen = outcome]
  /\ UNCHANGED <<pin, presult, fin, fres, stub, last, component>>

\* the interpreter behind the picker: handleSubmit calls it only with a config
\* that passes the schema, and never for the cloud provider
NextPicker ==
  \/ \E text \in PickerInputs : TypeInput(text)
  \/ \E id \in ProviderIds : SelectProvider(id)
  \/ CloseDialog
  \/ PressEnter
  \/ ClickSubmit
  \/ ResolveProvider
  \/ ValidateConfig
  \/ InvokeProvider
  \/ HttpStart
  \/ HttpFetch
  \/ HttpStatus
  \/ OllamaErrorText
  \/ HttpJson
  \/ ChromeStart
  \/ ChromeAvailability
  \/ ChromeCreate
  \/ ChromePrompt
  \/ SettleProvider
  \/ PickerSettle

SpecPicker == InitPicker /\ [][NextPicker]_vars

\* the continuation of handleSubmit is a microtask of the settled promise: it
\* runs once the promise has settled
SpecPickerFair == SpecPicker /\ WF_vars(PickerSettle)

(***************************************************************************)
(* A provider called directly, without the dispatcher in front of it       *)
(***************************************************************************)
\* the providers that have an interpretDate of their own to call
DirectIds == {"lmstudio", "ollama", "chrome-ai"}

\* the requests of the direct calls: any config, valid or not
OptionsDirect ==
  { o \in Options : /\ o.providerId \in DirectIds
                    /\ o.prompt = "tomorrow at 3pm"
                    /\ o.timezone \in {Undefined, Str("Asia/Shanghai")} }

\* the InterpretDateRequest as the caller wrote it
DirectRequest(o) ==
  [prompt |-> o.prompt, locale |-> o.locale, timezone |-> o.timezone, now |-> o.now,
   signal |-> o.signal, config |-> o.config]

InitDirect ==
  /\ registered = ProviderIds
  /\ hasFallback = FALSE
  /\ calls = 0
  /\ CallReset
  /\ pin = NoInput
  /\ presult = NoParse
  /\ fin = NoRequest
  /\ fres = NoFallbackRun
  /\ stub = NoStub
  /\ last = NoLast
  /\ picker = NoPicker
  /\ component = NoComponent

\* provider.interpretDate(request) called by a caller of its own
InvokeDirect(o) ==
  /\ pc = "idle"
  /\ calls < MaxCalls
  /\ options' = o
  /\ request' = DirectRequest(o)
  /\ events' = Append(events, "provider")
  /\ ppc' = "start"
  /\ pc' = "direct"
  /\ UNCHANGED <<registered, hasFallback, calls, aborted, abortedAt, validation,
                 fbPayload, outcome>>
  /\ UNCHANGED <<transport, sessions, lm, pout, console>>
  /\ UNCHANGED nvars

\* the caller has the provider's promise settled in its hands
ReturnDirect ==
  /\ pc = "direct"
  /\ ppc \in {"returned", "threw"}
  /\ outcome' = pout
  /\ pc' = IF pout.kind = "result" THEN "done" ELSE "failed"
  /\ UNCHANGED <<registered, hasFallback, calls, options, aborted, abortedAt,
                 validation, events, fbPayload>>
  /\ UNCHANGED pvars
  /\ UNCHANGED nvars

NextDirect ==
  \/ \E o \in OptionsDirect : InvokeDirect(o)
  \/ HttpStart
  \/ HttpFetch
  \/ HttpStatus
  \/ OllamaErrorText
  \/ HttpJson
  \/ ChromeStart
  \/ ChromeAvailability
  \/ ChromeCreate
  \/ ChromePrompt
  \/ ReturnDirect

SpecDirect == InitDirect /\ [][NextDirect]_vars

(***************************************************************************)
(* OllamaConfigComponent.fetchModels next to Ollama interpretDate calls    *)
(***************************************************************************)
\* modelError: null, or the message shown under the model field
NoModelError == [set |-> FALSE, msg |-> "", detail |-> ""]
ModelError(msg, detail) == [set |-> TRUE, msg |-> msg, detail |-> detail]

\* error instanceof Error ? error.message : 'Failed to load models'
ModelErrorOf(e) ==
  IF e.name # "" THEN ModelError(e.msg, e.detail) ELSE ModelError("Failed to load models", "")

FetchModelsFailed(statusText) == Err("Error", "Failed to fetch models", statusText, 0)

\* what the server can answer to GET /api/tags: the status line
TagsResponses ==
  { [ok |-> TRUE, statusText |-> "OK"],
    [ok |-> FALSE, statusText |-> "Internal Server Error"],
    [ok |-> FALSE, statusText |-> "Not Found"] }

\* what reading the body can give: the number of models listed (data.models
\* may be missing: 0), or -1 for a body that is no JSON
TagsBodies == {-1, 0, 1, 2}

\* a backend for the calls: a function of the one prompt they are made with
StubsModels == [{"tomorrow at 3pm"} -> Scripts]

\* the Ollama calls that run next to the component
OptionsModels ==
  { o \in OptionsTwice : o.providerId = "ollama" /\ o.prompt = "tomorrow at 3pm"
                         /\ o.config # V(Undefined) }

\* the component as mounted: useState([]), useState(false), useState(null)
InitModels ==
  /\ registered = ProviderIds
  /\ hasFallback = FALSE
  /\ calls = 0
  /\ CallReset
  /\ pin = NoInput
  /\ presult = NoParse
  /\ fin = NoRequest
  /\ fres = NoFallbackRun
  /\ stub \in StubsModels
  /\ last = NoLast
  /\ picker = NoPicker
  /\ component = [baseUrl |-> "", models |-> 0, isLoadingModels |-> FALSE,
                  modelError |-> NoModelError, fetching |-> 0, reading |-> 0,
                  step |-> "mounted"]

\* a step of the component touches nothing of the dispatcher or the providers
ComponentOnly ==
  /\ UNCHANGED dvars
  /\ UNCHANGED pvars
  /\ UNCHANGED <<pin, presult, fin, fres, stub, last, picker>>

\* a catch clause that leaves the loading flag to the success path
FailedRunKeepsLoading(c, e) ==
  [c EXCEPT !.modelError = ModelErrorOf(e), !.step = "failed"]

\* lines 340-345: catch sets modelError, finally clears isLoadingModels
FailedRun(c, e) ==
  [c EXCEPT !.modelError = ModelErrorOf(e), !.isLoadingModels = FALSE, !.step = "failed"]

\* lines 322-331: fetchModels up to its first await
StartedRun(c) ==
  IF c.baseUrl = ""
  THEN [c EXCEPT !.modelError = ModelError("Please enter base URL first", ""),
                 !.step = "refused"]
  ELSE [c EXCEPT !.isLoadingModels = TRUE, !.modelError = NoModelError,
                 !.fetching = @ + 1, !.step = "started"]

\* the base URL field changes; the effect of lines 348-353 then runs
\* fetchModels when there is a base URL and no model list yet
EditBaseUrl(url) ==
  /\ url # component.baseUrl
  /\ LET c == [component EXCEPT !.baseUrl = url, !.step = "edited"]
     IN  /\ (url # "" /\ c.models = 0) => c.fetching + c.reading < MaxRuns
         /\ component' = IF url # "" /\ c.models = 0 THEN StartedRun(c) ELSE c
  /\ ComponentOnly

\* the Fetch Models button, disabled without a base URL and while loading
ClickFetchModels ==
  /\ component.baseUrl # ""
  /\ ~component.isLoadingModels
  /\ component.fetching + component.reading < MaxRuns
  /\ component' = StartedRun(component)
  /\ ComponentOnly

\* await fetch(`${config.baseUrl}/api/tags`) settles for one of the runs
FetchModelsResponse ==
  /\ component.fetching > 0
  /\ LET c == [component EXCEPT !.fetching = @ - 1]
     IN  \/ component' = FailedRun(c, NetworkError)
         \/ \E r \in TagsResponses :
              component' = IF r.ok THEN [c EXCEPT !.reading = @ + 1, !.step = "reading"]
                           ELSE FailedRun(c, FetchModelsFailed(r.statusText))
  /\ ComponentOnly

\* await response.json() settles for one of the runs
FetchModelsJson ==
  /\ component.reading > 0
  /\ LET c == [component EXCEPT !.reading = @ - 1]
     IN  \E n \in TagsBodies :
           component' = IF n < 0 THEN FailedRun(c, BodySyntaxError)
                        ELSE [c EXCEPT !.models = n, !.isLoadingModels = FALSE,
                                       !.step = "loaded"]
  /\ ComponentOnly

NextModels ==
  \/ \E url \in {"", Url} : EditBaseUrl(url)
  \/ ClickFetchModels
  \/ FetchModelsResponse
  \/ FetchModelsJson
  \/ \E o \in OptionsModels : CallAgain(o)
  \/ ResolveProvider
  \/ ValidateConfig
  \/ InvokeProvider
  \/ HttpStart /\ Conforms
  \/ HttpFetch /\ Conforms
  \/ HttpStatus /\ Conforms
  \/ OllamaErrorText /\ Conforms
  \/ HttpJson /\ Conforms
  \/ SettleProvider
  \/ ReturnTwice

SpecModels == InitModels /\ [][NextModels]_vars

(***************************************************************************)
(* Properties                                                              *)
(***************************************************************************)
\* the call has invoked e
Has(e) == \E i \in DOMAIN events : events[i] = e

\* the call has settled
Settled == pc \in {"done", "failed"}

\* the matches chrono finds for the prompt of the call
Matches ==
  chronoParse(options.prompt, Coalesce(options.now, DateObj(CurrentTime)), TRUE)

\* the supplied config passes the schema of the named provider
ConfigValid == configSchema(options.providerId, options.config).success

\* C1: a call naming a provider that has no entry in the registry fails at once
\* with the unknown-provider error: the only thing it has done is the lookup,
\* no schema validation has run, and neither the fallback nor any provider's
\* interpretDate has been invoked.
C1_UnknownProviderFailsImmediately ==
  (pc \notin {"idle", "resolve"} /\ options.providerId \notin registered) =>
    /\ pc = "failed"
    /\ outcome = Rejected(Err("Error", "Provider is not configured.", options.providerId, 0))
    /\ events = <<"resolve">>
    /\ validation = NoValidation
    /\ fbPayload = NoRequest
    /\ request = NoRequest
    /\ ppc = "none"

C1_Witness ==
  /\ pc = "failed"
  /\ options.providerId = "chrome-ai"
  /\ "chrome-ai" \notin registered
  /\ hasFallback
  /\ Len(Matches) > 0

\* C2: for a registered provider P, a call whose config fails P's schema and
\* whose prompt the fallback parser matches returns the fallback's result: its
\* providerId is 'fallback', never P's id, it is built from the first match,
\* and P.interpretDate has not been invoked.
C2_InvalidConfigReturnsFallback ==
  (/\ Settled
   /\ options.providerId \in registered
   /\ ~ConfigValid
   /\ hasFallback
   /\ Len(Matches) > 0) =>
    /\ pc = "done"
    /\ outcome.kind = "result"
    /\ outcome.result.providerId = "fallback"
    /\ outcome.result.providerId # options.providerId
    /\ outcome.result.rawResponse = Matches[1]
    /\ outcome.result.value = IsoStr(Matches[1].at)
    /\ ~Has("provider")
    /\ ppc = "none"
    /\ request = NoRequest

C2_Witness ==
  /\ pc = "done"
  /\ options.providerId = "lmstudio"
  /\ options.config = Obj(Fields2("baseUrl", Str(""), "model", Str("llama3.2:3b")))
  /\ options.prompt = "tomorrow at 3pm"
  /\ outcome.result.providerId = "fallback"

\* C3: for a registered provider P, a call whose config fails P's schema and
\* whose prompt the fallback parser does not match fails with the 'Invalid
\* configuration' error carrying the schema's validation message; no
\* DateInterpretation is returned.
C3_InvalidConfigNoMatchFails ==
  (/\ Settled
   /\ options.providerId \in registered
   /\ ~ConfigValid
   /\ hasFallback
   /\ Len(Matches) = 0) =>
    /\ pc = "failed"
    /\ outcome.kind = "error"
    /\ outcome.result = NoResult
    /\ outcome.error.msg = "Invalid configuration"
    /\ outcome.error.detail # ""
    /\ outcome.error.detail = configSchema(options.providerId, options.config).issue
    /\ ~Has("provider")

C3_Witness ==
  /\ pc = "failed"
  /\ hasFallback
  /\ options.providerId = "chrome-ai"
  /\ options.config = Obj(Fields1("temperature", Num(20)))
  /\ options.prompt = "qwerty"
  /\ outcome.error.detail = "temperature: Invalid number"
  /\ Has("fallback")

\* C4: in every call the fallback is invoked only after the supplied config
\* failed the resolved provider's schema; with a valid config the fallback is
\* never invoked, whatever the provider does.
C4_FallbackOnlyForInvalidConfig ==
  (Has("runFallback") \/ Has("fallback") \/ fbPayload # NoRequest) =>
    /\ Has("safeParse")
    /\ options.providerId \in registered
    /\ ~ConfigValid
    /\ ~Has("provider")

C4_Witness ==
  /\ pc = "failed"
  /\ ConfigValid
  /\ hasFallback
  /\ Len(Matches) > 0
  /\ pout = Rejected(NetworkError)
  /\ ~Has("runFallback")

\* C5: with a valid config, a failure of the provider's interpretDate is the
\* failure of the call: the same error, not wrapped, not replaced, and not
\* turned into a result.
C5_ProviderFailurePropagatesUnchanged ==
  (Settled /\ Has("provider") /\ pout.kind = "error") =>
    /\ pc = "failed"
    /\ outcome.kind = "error"
    /\ outcome.result = NoResult
    /\ outcome.error = pout.error

C5_Witness ==
  /\ pc = "failed"
  /\ options.providerId = "ollama"
  /\ pout.error.status = 500
  /\ outcome.error = Err("Error", "Ollama request failed", "Internal Server Error", 500)

\* C6: the provider's interpretDate is invoked only with a config that passed
\* that provider's own schema, and the request it receives carries the schema's
\* output (the declared keys only, each with the supplied value) in place of
\* the raw config, and the caller's prompt, locale, timezone, now and signal
\* unchanged.
C6_ProviderGetsValidatedConfig ==
  (ppc # "none") =>
    /\ ConfigValid
    /\ request.config.t = "object"
    /\ DOMAIN request.config.fields =
         (DOMAIN options.config.fields) \cap SchemaKeys(options.providerId)
    /\ \A k \in DOMAIN request.config.fields :
         request.config.fields[k] = options.config.fields[k]
    /\ request.prompt = options.prompt
    /\ request.locale = options.locale
    /\ request.timezone = options.timezone
    /\ request.now = options.now
    /\ request.signal = options.signal

C6_Witness ==
  /\ ppc # "none"
  /\ options.providerId = "chrome-ai"
  /\ "apiKey" \in DOMAIN options.config.fields
  /\ request.config = Obj(Fields1("topK", Num(30)))
  /\ request.config # options.config

\* C7: a DateInterpretation returned by a concrete provider's interpretDate has
\* that provider's id as providerId, and a call's result has providerId
\* 'fallback' only when the fallback interpreter produced it.
C7_ProviderIdIsOwnId ==
  /\ (pout.kind = "result") =>
       /\ pout.result.providerId = options.providerId
       /\ pout.result.providerId \in {"lmstudio", "ollama", "chrome-ai"}
  /\ (outcome.kind = "result" /\ outcome.result.providerId = "fallback") =>
       /\ Has("fallback")
       /\ ~Has("provider")

C7_Witness ==
  /\ pout.kind = "result"
  /\ options.providerId = "chrome-ai"
  /\ pout.result.providerId = "chrome-ai"
  /\ outcome = pout

\* C8: every DateInterpretation returned by a provider's interpretDate has a
\* value that parses to a valid instant, whatever the backend answered.
C8_ProviderValueParses ==
  (pout.kind = "result") => DateParses(pout.result.value)

\* the record parseResponse looks the fields up in
CandidateRecord ==
  IF pin.candidate.t = "text"
  THEN (IF JSONParse(pin.candidate.toks).ok THEN JSONParse(pin.candidate.toks).val
        ELSE V(Null))
  ELSE pin.candidate

\* parseResponse has run
Normalised == presult # NoParse

\* C9 as stated: parseResponse fails with the missing-ISO-value error exactly
\* when the candidate cannot be parsed as structured data or its value field is
\* absent or not a string, and returns a DateInterpretation for every candidate
\* whose value field is a string.
C9_FailsIffValueNotString ==
  Normalised =>
    /\ ~presult.ok <=> (Get(CandidateRecord, "value").t # "string")
    /\ ~presult.ok => presult.error = MissingISO

\* C9 as amended: parseResponse fails with the missing-ISO-value error exactly
\* when the candidate cannot be parsed as structured data or its value field is
\* absent, not a string, or the empty string; for every other candidate it
\* returns a DateInterpretation.
C9_FailsIffValueNotNonEmptyString ==
  Normalised =>
    /\ ~presult.ok <=>
         (\/ Get(CandidateRecord, "value").t # "string"
          \/ Get(CandidateRecord, "value").s = "")
    /\ ~presult.ok => (presult.error = MissingISO /\ presult.result = NoResult)
    /\ presult.ok => (presult.error = NoError /\ presult.result # NoResult)

C9_Witness ==
  /\ Normalised
  /\ ~presult.ok
  /\ pin.candidate = Text(<<LBrace, Str("value"), Colon, Str(""), RBrace>>)
  /\ presult.error = MissingISO

ProviderSettled == ppc \in {"returned", "threw"}

\* C11: in a ChromeAIProvider.interpretDate call every session that was created
\* is destroyed exactly once by the time the call settles, whichever way it
\* ends: no session is destroyed twice or without having been created, a session
\* exists only after LanguageModel.create was called, it is live while the
\* prompt is pending, and none is live once the provider's promise has settled.
C11_SessionDestroyedOnce ==
  /\ sessions.destroyed <= sessions.created
  /\ sessions.created <= 1
  /\ sessions.created = 1 => IsChrome /\ Has("create")
  /\ ppc = "prompt" => sessions = [created |-> 1, destroyed |-> 0]
  /\ ProviderSettled => sessions.destroyed = sessions.created
  /\ ProviderSettled /\ Has("prompt") => sessions = [created |-> 1, destroyed |-> 1]
  /\ ProviderSettled /\ ~Has("prompt") => sessions = NoSessions

\* a Chrome AI call whose answer failed normalisation: its one session is gone
C11_Witness ==
  /\ IsChrome
  /\ ppc = "threw"
  /\ Has("parseResponse")
  /\ pout.error = ChromeCatch(MissingISO)
  /\ sessions = [created |-> 1, destroyed |-> 1]

\* C12: when the caller aborts the signal of a call that reaches the fetch of the
\* LM Studio or Ollama provider (before the fetch or while the exchange is in
\* flight), the provider's interpretDate fails with the AbortError the transport
\* raises, not with a 'request failed' error; no answer is normalised, no
\* DateInterpretation is returned, and the dispatcher's promise is rejected with
\* that same AbortError.
C12_AbortSurfacesAsAbortError ==
  IsHttp /\ aborted /\ Has("fetch") =>
    /\ transport.signal
    /\ ~Has("parseResponse")
    /\ ProviderSettled => pout = Rejected(AbortError)
    /\ Settled => outcome = Rejected(AbortError)

\* a call aborted after the response status arrived, while the body was read
C12_Witness ==
  /\ IsHttp
  /\ abortedAt = "json"
  /\ transport.status = 200
  /\ pc = "failed"
  /\ outcome = Rejected(AbortError)

\* C13: the Chrome AI provider honours the signal: when the caller aborts it
\* while LanguageModel.create or session.prompt is pending, the provider's
\* interpretDate fails, and the failure is one of cancellation (an AbortError,
\* or an error quoting the abort message), never a DateInterpretation.
C13_ChromeAbortCancels ==
  IsChrome /\ abortedAt \in {"create", "prompt"} /\ ProviderSettled =>
    /\ pout.kind = "error"
    /\ pout.error.name = AbortError.name \/ pout.error.detail = AbortError.msg

\* C14: CloudProvidersProvider.interpretDate does nothing but fail with the
\* not-yet-available error: it sends no request and creates no session, it never
\* returns a result, and so no call of the dispatcher ever settles with a
\* DateInterpretation whose providerId is 'cloud'.
C14_CloudNeverAnswers ==
  /\ options.providerId = "cloud" /\ ppc # "none" =>
       /\ ppc \in {"start", "threw"}
       /\ transport = NoTransport
       /\ sessions = NoSessions
       /\ ~Has("fetch") /\ ~Has("create") /\ ~Has("parseResponse")
       /\ ppc = "threw" => pout = Rejected(CloudUnavailable)
       /\ Settled => outcome = Rejected(CloudUnavailable)
  /\ pout.result.providerId # "cloud"
  /\ outcome.result.providerId # "cloud"

\* a call of the cloud provider with a valid config has failed
C14_Witness ==
  /\ options.providerId = "cloud"
  /\ ConfigValid
  /\ Has("provider")
  /\ pc = "failed"
  /\ outcome = Rejected(CloudUnavailable)

\* C15: ChromeAIProvider.interpretDate fails whenever the LanguageModel global is
\* absent or its availability is anything but 'readily': with the not-available
\* or the not-ready error, before any session is created or prompted; and the
\* dispatcher hands that failure on as it is, without running the fallback.
C15_ChromeUnavailableFails ==
  /\ IsChrome /\ (lm.defined = "no" \/ lm.available \notin {"", "readily"}) =>
       /\ ppc = "threw"
       /\ pout = Rejected(IF lm.defined = "no" THEN ChromeUnavailable ELSE ChromeNotReady)
       /\ sessions = NoSessions
       /\ ~Has("create") /\ ~Has("prompt")
       /\ ~Has("runFallback") /\ ~Has("fallback")
       /\ Settled => pc = "failed" /\ outcome = pout
  /\ Has("create") => lm = [defined |-> "yes", available |-> "readily"]

\* a dispatcher with a fallback has failed a Chrome AI call whose model still
\* has to be downloaded
C15_Witness ==
  /\ IsChrome
  /\ hasFallback
  /\ lm = [defined |-> "yes", available |-> "after-download"]
  /\ pc = "failed"
  /\ outcome = Rejected(ChromeNotReady)

\* C16: when the response of LM Studio or Ollama has a non-success status, the
\* provider's interpretDate fails with the 'request failed' error that carries
\* the status code and the status text; the body is not read as an answer, it is
\* never normalised, and no DateInterpretation is returned.
C16_NonSuccessStatusFailsWithStatus ==
  IsHttp /\ transport.status # 0 /\ ~ResponseOk(transport) =>
    /\ ~Has("parseResponse")
    /\ transport.data = NoRaw
    /\ ProviderSettled =>
         pout = Rejected(RequestFailed(options.providerId, transport.status,
                                       transport.statusText))

\* the reference instant of the payload: its now, else the current time
FallbackRef == IF fin.now.t = "date" THEN fin.now ELSE DateObj(CurrentTime)

\* the matches the parser finds for the payload, preferring future dates
FallbackMatches == chronoParse(fin.prompt, FallbackRef, TRUE)

\* C17: whenever the parser finds no match for the prompt, whatever the prompt,
\* the timezone and the reference instant of the payload, fallbackInterpreter
\* resolves to null: it neither fails nor makes up a DateInterpretation.
C17_NoMatchResolvesNull ==
  fres.called /\ Len(FallbackMatches) = 0 =>
    /\ fres.kind = "null"
    /\ fres.result = NoResult

\* the fallback has been run on a prompt that holds no date
C17_Witness ==
  /\ fres.called
  /\ fin.prompt = "qwerty"
  /\ fin.timezone = Str("Asia/Shanghai")
  /\ fin.now = DateObj(MaxRef)
  /\ fres.kind = "null"

\* C18: the parser is called with the prompt, the reference instant (the
\* payload's now, else the current time) and forwardDate on; when it finds at
\* least one match, fallbackInterpreter resolves to a DateInterpretation built
\* from the first match alone: providerId 'fallback', value the ISO string of
\* that match's instant (which parses as a date), confidence 0.2, the fixed
\* reasoning, and the match object as rawResponse. For 'tomorrow at 3pm' the
\* value lies after the reference instant.
C18_FirstMatchBecomesResult ==
  fres.called =>
    /\ fres.args = [text |-> fin.prompt, ref |-> FallbackRef, forwardDate |-> TRUE]
    /\ Len(FallbackMatches) >= 1 =>
         /\ fres.kind = "result"
         /\ fres.result.providerId = "fallback"
         /\ fres.result.value = IsoStr(FallbackMatches[1].at)
         /\ DateParses(fres.result.value)
         /\ fres.result.confidence = Num(2)
         /\ fres.result.reasoning = Str("Fallback parser with chrono-node")
         /\ fres.result.rawResponse = FallbackMatches[1]
         /\ fin.prompt = "tomorrow at 3pm" => fres.result.value.n > FallbackRef.n

\* the fallback has been run on a prompt with two matches and took the first
C18_Witness ==
  /\ fres.called
  /\ fin.prompt = "friday or monday"
  /\ fin.now = DateObj(0)
  /\ Len(FallbackMatches) = 2
  /\ fres.result.value = IsoStr(48)
  /\ fres.result.rawResponse.content = V(Str("friday"))

\* how often the call has invoked e
Count(e) == Cardinality({ i \in DOMAIN events : events[i] = e })

\* the provider named by the call has an entry in the registry
Registered == options.providerId \in registered

\* C19 as stated: every call validates only after the lookup, invokes exactly
\* one of the provider and the fallback path (never both, never twice), and
\* ends in a result or a failure.
C19_EveryCallInvokesExactlyOne ==
  /\ Has("safeParse") => events[1] = "resolve" /\ Registered
  /\ Count("provider") <= 1 /\ Count("runFallback") <= 1
  /\ Settled => Count("provider") + Count("runFallback") = 1
  /\ Settled => outcome.kind \in {"result", "error"}

\* C19: a call does the lookup first; when the provider is not registered it
\* fails right there and invokes nothing. Otherwise it validates the config
\* next and then invokes exactly one of the provider's interpretDate and
\* runFallback (which calls the fallback interpreter only when one is
\* configured): never both, neither of them twice. The call ends as done with
\* a DateInterpretation or as failed with an error, and is pending until then.
C19_CallFollowsStateMachine ==
  /\ \A e \in {"resolve", "safeParse", "provider", "runFallback", "fallback"} :
       Count(e) <= 1
  /\ Count("provider") + Count("runFallback") <= 1
  /\ pc \notin {"idle", "resolve"} => Len(events) >= 1 /\ events[1] = "resolve"
  /\ Has("safeParse") => Registered /\ events[2] = "safeParse"
  /\ Has("provider") \/ Has("runFallback") =>
       Has("safeParse") /\ events[3] \in {"provider", "runFallback"}
  /\ Has("fallback") => hasFallback /\ Has("runFallback")
  /\ Has("provider") <=> ppc # "none"
  /\ Settled /\ Registered => Count("provider") + Count("runFallback") = 1
  /\ Settled /\ ~Registered => events = <<"resolve">>
  /\ pc = "done" <=> outcome.kind = "result"
  /\ pc = "failed" <=> outcome.kind = "error"

\* a call has run the fallback path and returned its answer, without ever
\* invoking the provider
C19_Witness ==
  /\ pc = "done"
  /\ events = <<"resolve", "safeParse", "runFallback", "fallback">>
  /\ ppc = "none"
  /\ outcome.result.providerId = "fallback"

\* C20: when a call has settled and the previous call on the same dispatcher had
\* the same request contents, the two outcomes are identical: the same
\* DateInterpretation or the same failure, the backends and the fallback being
\* functions of their input. Between two calls the dispatcher holds nothing of
\* the earlier one, whether it succeeded or failed.
C20_SameRequestSameOutcome ==
  /\ Settled /\ last.settled /\ last.options = options => outcome = last.outcome
  /\ pc = "idle" => CallReset

\* the same request has been served twice by the Ollama provider, with the same
\* DateInterpretation both times
C20_Witness ==
  /\ Settled
  /\ calls = 1
  /\ last.settled
  /\ last.options = options
  /\ options.providerId = "ollama"
  /\ outcome.kind = "result"
  /\ outcome = last.outcome

\* what the picker last passed to onChange
LastReported == picker.reported[Len(picker.reported)]

\* C21: handleSubmit passes a date to onChange only when the interpreter
\* returned a result whose value parses to a valid instant, and then it is that
\* instant; when the value does not parse, or the interpreter call failed,
\* onChange gets null and hasError is set. No invalid date is ever reported.
C21_OnlyParsedValuesReported ==
  /\ \A i \in DOMAIN picker.reported :
       picker.reported[i] # Null =>
         picker.reported[i].t = "date" /\ picker.reported[i].s # "Invalid Date"
  /\ picker.seen.kind # "pending" /\ picker.hasOnChange =>
       /\ Len(picker.reported) >= 1
       /\ LastReported # Null =>
            /\ picker.seen.kind = "result"
            /\ DateParses(picker.seen.result.value)
            /\ LastReported.s = picker.seen.result.value.s
       /\ picker.seen.kind = "error" \/ ~DateParses(picker.seen.result.value) =>
            LastReported = Null /\ picker.hasError

\* the interpreter returned the value 'tomorrow', and the picker reported null
C21_Witness ==
  /\ picker.seen.kind = "result"
  /\ picker.seen.result.value = Str("tomorrow")
  /\ picker.hasOnChange
  /\ picker.reported = <<Null>>
  /\ picker.hasError

\* C22: a picker has at most one interpreter call outstanding: while the call
\* handleSubmit started is pending, isResolving is set, the input and the
\* submit button are disabled, and so neither Enter nor a click starts a second
\* call, whatever the user does in between.
C22_OneInterpretationAtATime ==
  /\ picker.outstanding <= 1
  /\ picker.outstanding = 1 <=> picker.isResolving
  /\ picker.outstanding = 1 <=> pc # "idle"
  /\ picker.isResolving => ~InputEnabled(picker) /\ ~ButtonEnabled(picker)

\* a call is waiting for the response while the prompt is still in the input
C22_Witness ==
  /\ picker.isResolving
  /\ picker.outstanding = 1
  /\ Trim(picker.input) # ""
  /\ calls < MaxCalls
  /\ ppc = "fetch"

\* C23: when the user submits a non-empty prompt while the stored config of the
\* active (non-cloud) provider is invalid, handleSubmit calls the interpreter,
\* whose fallback then interprets the prompt; once that call has been handled
\* the date of a parseable prompt has been reported.
C23_InvalidConfigSubmitFallsBack ==
  /\ Trim(picker.submit.input) # ""
  /\ picker.submit.active \in ProviderIds \ {"cloud"}
  /\ ~picker.submit.configured
  /\ picker.submit.took # "none"
  => /\ picker.submit.took = "interpreter"
     /\ picker.seen.kind # "pending" => picker.seen.result.providerId = "fallback"


\* C24: the payload handed to the fallback holds exactly prompt, locale,
\* timezone and now, each with the value the caller passed; the config, the
\* provider id and the signal are not part of it.
C24_FallbackPayloadIsFourFields ==
  Has("runFallback") =>
    /\ DOMAIN fbPayload = {"prompt", "locale", "timezone", "now"}
    /\ \A k \in DOMAIN fbPayload : fbPayload[k] = options[k]

\* the fallback ran for a call that carried a config object, a signal and a
\* full context
C24_Witness ==
  /\ Has("fallback")
  /\ options.signal
  /\ options.config.t = "object" /\ DOMAIN options.config.fields # {}
  /\ options.locale # Undefined /\ options.now # Undefined
  /\ fbPayload.prompt = options.prompt


\* the console lines written by the parseResponse call under a given label
Logged(label) == { i \in 1 .. Len(presult.console) : presult.console[i].label = label }

\* C25: whenever parseResponse fails, the console lines that come with the
\* error name the provider's id, the candidate and the raw payload of the
\* call; no failure comes without all three.
C25_FailureLogsIdCandidateAndRaw ==
  (Normalised /\ ~presult.ok) =>
    /\ \E i \in Logged("Provider:") : presult.console[i].id = pin.id
    /\ \E i \in Logged("Candidate:") : presult.console[i].val = pin.candidate
    /\ \E i \in Logged("Raw response:") : presult.console[i].raw = pin.raw

\* a text that is no JSON failed for the ollama provider, with its three lines
C25_Witness ==
  /\ Normalised
  /\ ~presult.ok
  /\ pin.id = "ollama"
  /\ pin.candidate = Text(<<Junk>>)
  /\ Len(presult.console) = 4


\* a direct call was made with a config the provider's schema rejects
DirectInvalid ==
  /\ pc \in {"direct", "failed", "done"}
  /\ Has("provider")
  /\ ~configSchema(options.providerId, request.config).success

\* C26 as stated: a provider called directly with a config that fails its own
\* schema fails with the invalid-config error, returns nothing, sends no
\* request and creates no session.
C26_InvalidConfigFailsAsInvalidConfig ==
  DirectInvalid =>
    /\ pout.kind # "result"
    /\ pout.kind = "error" =>
         pout.error = InvalidConfig(configSchema(options.providerId, request.config))
    /\ transport = NoTransport /\ ~Has("fetch")
    /\ sessions = NoSessions /\ ~Has("create")

\* C26 as amended: a provider called directly with a config that fails its own
\* schema fails, returns nothing, sends no request and creates no session;
\* the error is the invalid-config error for LM Studio and Ollama, and for
\* Chrome AI once LanguageModel is defined and readily available, while a
\* Chrome AI that is absent or not ready fails with its availability error
\* before the config is looked at.
C26_InvalidConfigFailsWithoutRequest ==
  DirectInvalid =>
    /\ pout.kind # "result"
    /\ pout.kind = "error" =>
         pout.error =
           IF options.providerId = "chrome-ai" /\ lm.defined = "no" THEN ChromeUnavailable
           ELSE IF options.providerId = "chrome-ai" /\ lm.available # "readily"
                THEN ChromeNotReady
           ELSE InvalidConfig(configSchema(options.providerId, request.config))
    /\ ppc \in {"start", "availability", "threw"}
    /\ pc # "direct" => outcome = pout
    /\ transport = NoTransport /\ ~Has("fetch")
    /\ sessions = NoSessions /\ ~Has("create")

\* Chrome AI called directly with an invalid config has failed while its
\* model was not ready
C26_Witness ==
  /\ DirectInvalid
  /\ options.providerId = "chrome-ai"
  /\ lm.available = "after-download"
  /\ pc = "failed"
  /\ outcome = Rejected(ChromeNotReady)


\* C27: a fetchModels run that fails (network error, non-success status,
\* unreadable body) leaves modelError set to the error's message and
\* isLoadingModels false; no step of the component touches an Ollama
\* interpretDate call, so a call served next to any interleaving of fetchModels
\* runs settles as the same call served by the same backend at another time.
C27_FetchModelsFailureStaysInComponent ==
  /\ component.step = "failed" =>
       /\ component.modelError.set
       /\ component.modelError.msg \in {"Failed to fetch", "Failed to fetch models",
                                        "Unexpected token"}
       /\ ~component.isLoadingModels
  /\ component.fetching + component.reading = 0 /\ component.step # "mounted"
       /\ component.baseUrl # "" => ~component.isLoadingModels
  /\ Settled /\ last.settled /\ last.options = options => outcome = last.outcome
  /\ Settled /\ stub[options.prompt].net = "down" => outcome = Rejected(NetworkError)
  /\ Settled /\ stub[options.prompt].net = "up" /\ stub[options.prompt].status # 200 =>
       outcome.kind = "error" /\ outcome.error.status = stub[options.prompt].status

\* a fetchModels run has just failed on a non-success status while an Ollama
\* call was waiting for its response, and the same call had been served before
C27_Witness ==
  /\ component.step = "failed"
  /\ component.modelError = ModelError("Failed to fetch models", "Internal Server Error")
  /\ pc = "await" /\ ppc = "fetch"
  /\ options.providerId = "ollama"
  /\ last.settled


\* C28: a dispatcher constructed without a fallback fails a call whose config
\* is invalid with the 'Invalid configuration' error carrying the validation
\* message, exactly as when a fallback finds nothing; neither the provider nor
\* any fallback interpreter is invoked.
C28_NoFallbackInvalidConfigFails ==
  (/\ Settled
   /\ ~hasFallback
   /\ options.providerId \in registered
   /\ ~ConfigValid) =>
    /\ pc = "failed"
    /\ outcome = Rejected(InvalidConfiguration(
                            configSchema(options.providerId, options.config)))
    /\ outcome.error.msg = "Invalid configuration"
    /\ Has("runFallback")
    /\ ~Has("fallback")
    /\ ~Has("provider")
    /\ ppc = "none" /\ request = NoRequest /\ transport = NoTransport

\* without a fallback, an Ollama call with an empty base URL and a prompt
\* chrono-node could have parsed has failed
C28_Witness ==
  /\ pc = "failed"
  /\ ~hasFallback
  /\ options.providerId = "ollama"
  /\ Get(options.config, "baseUrl") = Str("")
  /\ options.prompt = "tomorrow at 3pm"
  /\ outcome.error.msg = "Invalid configuration"
  /\ Has("runFallback")


\* C29: isResolving is set exactly while handleSubmit waits for the
\* interpreter; once the call has settled, with a result, a failure or an
\* unparseable value, the handler resumes, isResolving is false again and
\* onChange has been called exactly once for that submission.
C29_ResolvingEndsWithOneReport ==
  /\ [](/\ picker.isResolving <=> picker.outstanding = 1
        /\ picker.isResolving <=> pc # "idle"
        /\ Len(picker.reported) = IF picker.hasOnChange THEN calls ELSE 0)
  /\ (Settled /\ picker.isResolving) ~> ~picker.isResolving

\* the interpreter failed, the handler reported null once and isResolving is
\* false again
C29_Witness ==
  /\ picker.submit.took = "interpreter"
  /\ picker.seen.kind = "error"
  /\ ~picker.isResolving
  /\ picker.hasError
  /\ picker.reported = <<Null>>
  /\ calls = 1


\* an input of nothing but white space
WhitespaceOnly(text) == text \in {"", "   "}

====
